---- MODULE Spec2Model ----
(***************************************************************************)
(* A model of the QuaC provider for Qiskit: the list scheduler that gives  *)
(* every instruction of an experiment a start time, and the noise model    *)
(* (T1/T2 times, measurement matrices, ZZ coupling) with its flat-array    *)
(* encoding and its composed measurement operators, the run of one         *)
(* experiment on the QuaC engine, the counts and density result tables     *)
(* built from the engine's bitstring probabilities, the draw of an index   *)
(* by choose_index, the job handed to the executor, the noise model loaded *)
(* from a backend, and the provider with its backends.                     *)
(***************************************************************************)
EXTENDS Integers, Sequences, FiniteSets, TLC

(***************************************************************************)
(* Bounds of the model.                                                    *)
(***************************************************************************)
\* qubits of a scheduled experiment: 1..MaxSchedQubits
MaxSchedQubits == 2
\* instructions of a scheduled experiment: 0..MaxInstructions
MaxInstructions == 3
\* entries of the T1 and T2 lists whose has_t1/has_t2 are asked: 0..MaxHasQubits
MaxHasQubits == 3
\* qubits of a noise model that is encoded and decoded: 1..MaxArrayQubits
MaxArrayQubits == 3
\* entries of a decoded array beyond the ones a full encoding has: 0..MaxExtra
MaxExtra == 1
\* qubits of a noise model whose measurement operators are composed: 1..MaxMeasQubits
MaxMeasQubits == 2
\* calls of meas() on one noise model: 0..MaxMeasCalls
MaxMeasCalls == 3
\* qubits of an experiment that a simulator runs: 1..MaxRunQubits
MaxRunQubits == 2
\* instructions of an experiment that a simulator runs: 0..MaxRunInstructions
MaxRunInstructions == 3
\* qubits of an experiment whose result is formatted: 1..MaxFormatQubits
MaxFormatQubits == 2
\* classical bits of that experiment: 1..MaxMemorySlots
MaxMemorySlots == 2
\* measures of that experiment: 1..MaxMeasures
MaxMeasures == 2
\* shots of the counts simulator: 0..MaxShots
MaxShots == 1

(***************************************************************************)
(* Program constants.                                                      *)
(***************************************************************************)
\* scheduling_times = [1] * n_qubits
InitialTime == 1
\* if instruction.name == 'u1': gate_length = 10
U1Length == 10
\* list(100000 * array), np.array(list_form) / 100000
ArrayScale == 100000
\* simulation_length = gate_times[-1] + 500
GateTimesMargin == 500
\* dt = 10  # default time step value (ns)
DefaultTimeStep == 10

(***************************************************************************)
(* The state: the arguments and locals of list_schedule_experiment and the *)
(* position of its loop; a QuacNoiseModel instance with the arguments and  *)
(* results of the calls made on it.                                        *)
(***************************************************************************)
VARIABLES
    package,                 \* which of the two copies of the scheduler runs
    n_qubits,                \* qexp.config.n_qubits
    instructions,            \* qexp.instructions: records [name, qubits, id]
    hardware_props,          \* the entries of hardware_props read so far
    scheduling_times,        \* next free time of every qubit
    instruction_time_order,  \* the (instruction, time) pairs appended so far
    index,                   \* instructions of the loop already handled
    gate_length,             \* local of the last iteration
    gate_application_time,   \* local of the last iteration
    pc,                      \* position in the running function ("idle": none runs)
    model,                   \* a QuacNoiseModel instance (its private fields)
    returned,                \* what the last call on the noise model returned
    array,                   \* the flat array: what to_array returned, or an input
    n_arg,                   \* the n_qubits argument of from_array
    recovered,               \* what from_array returned or raised
    build_calls,             \* runs of build_full_measurement_matrices so far
    meas_calls,              \* calls of meas() so far
    raw_probs,               \* get_bitstring_probs() of the engine's final state
    bitstring_probs,         \* the formatter's vector after measurement errors
    hardware_specified,      \* self._hardware_specified of the simulator
    run_config,              \* the entries of run_config read so far
    quac_circuit,            \* the gates added to the quac.Circuit, in call order
    quac_simulator,          \* the quac.Instance: what has been called on it
    qubit_measurements,      \* qubit -> classical bits its measures write
    warned,                  \* the warnings.warn calls made so far
    run_result,              \* what _run_experiment returned or raised
    qobj_config,             \* qobj.config: n_qubits, memory_slots
    frequencies,             \* the density simulator's table: key -> probability
    decimal_state,           \* basis states the density simulator has handled
    classical_register_hex,  \* the key of the last basis state handled
    counts,                  \* the counts simulator's table: key -> hits
    shot,                    \* shots the counts simulator has drawn
    outcome,                 \* the index drawn by the last shot
    qiskit_outcome,          \* the key of the last shot
    module,                  \* which copy of choose_index is called
    prob_dist,               \* the prob_dist argument of choose_index
    chooser,                 \* random.random() of the call
    chosen,                  \* what choose_index returned
    future,                  \* self._future of the QuacJob
    executor,                \* the futures of the executor, in submission order
    threads,                 \* thread -> its call on the job: position, return
    run_pc,                  \* position of backend.run() ("none": job built directly)
    backend,                 \* the hardware backend a noise model is loaded from
    kwargs,                  \* the keyword arguments of from_backend
    provider_instantiated,   \* QuacProvider.provider_instantiated (class attribute)
    initialize_calls,        \* calls of quac.initialize() in the process
    user_def_backends,       \* the user_def_backends argument of the constructions
    providers,               \* construction -> its position and the instance's fields
    got                      \* the last get_backend call and what it gave

sched_vars == <<package, n_qubits, instructions, hardware_props, scheduling_times,
                instruction_time_order, index, gate_length, gate_application_time, pc>>

array_vars == <<array, n_arg, recovered>>

meas_vars == <<build_calls, meas_calls, raw_probs, bitstring_probs>>

noise_vars == <<model, returned, array_vars, meas_vars>>

adapter_vars == <<hardware_specified, run_config, quac_circuit, quac_simulator,
                  warned, run_result>>

format_vars == <<qobj_config, frequencies, decimal_state, classical_register_hex,
                 counts, shot, outcome, qiskit_outcome>>

job_vars == <<adapter_vars, qubit_measurements, format_vars>>

choose_vars == <<module, prob_dist, chooser, chosen>>

task_vars == <<future, executor, threads, run_pc>>

backend_vars == <<backend, kwargs>>

provider_vars == <<provider_instantiated, initialize_calls, user_def_backends,
                   providers, got>>

svc_vars == <<choose_vars, task_vars, backend_vars, provider_vars>>

vars == <<sched_vars, noise_vars, job_vars, svc_vars>>

\* Python's None, and a value that is not None.
None == [none |-> TRUE]

Some(x) == [none |-> FALSE, val |-> x]

\* The outcome of a call: a returned value, or a raised exception.
Ok(x) == [ok |-> TRUE, val |-> x]

Raise(exception) == [ok |-> FALSE, val |-> exception]

\* No array is encoded or decoded.
ArrayIdle ==
    /\ array = None
    /\ n_arg = 0
    /\ recovered = None

\* No measurement operators are asked for.
MeasIdle ==
    /\ build_calls = 0
    /\ meas_calls = 0
    /\ raw_probs = None
    /\ bitstring_probs = None

\* No noise model is in use.
NoiseIdle ==
    /\ model = None
    /\ returned = None
    /\ ArrayIdle
    /\ MeasIdle

\* No simulator runs an experiment.
AdapterIdle ==
    /\ hardware_specified = FALSE
    /\ run_config = <<>>
    /\ quac_circuit = None
    /\ quac_simulator = None
    /\ warned = <<>>
    /\ run_result = None

\* No result is being formatted.
FormatIdle ==
    /\ qobj_config = None
    /\ frequencies = <<>>
    /\ decimal_state = 0
    /\ classical_register_hex = None
    /\ counts = <<>>
    /\ shot = 0
    /\ outcome = None
    /\ qiskit_outcome = None

\* No job runs.
JobIdle ==
    /\ AdapterIdle
    /\ qubit_measurements = <<>>
    /\ FormatIdle

\* choose_index is not called.
ChooseIdle ==
    /\ module = "math"
    /\ prob_dist = <<>>
    /\ chooser = None
    /\ chosen = None

\* There is no job.
TaskIdle ==
    /\ future = None
    /\ executor = <<>>
    /\ threads = <<>>
    /\ run_pc = "none"

\* No noise model is loaded from a backend.
BackendIdle ==
    /\ backend = None
    /\ kwargs = <<>>

\* No provider is constructed.
ProviderIdle ==
    /\ provider_instantiated = FALSE
    /\ initialize_calls = 0
    /\ user_def_backends = None
    /\ providers = <<>>
    /\ got = None

\* Nothing runs besides one experiment and its noise model.
SvcIdle ==
    /\ ChooseIdle
    /\ TaskIdle
    /\ BackendIdle
    /\ ProviderIdle

\* The two copies of list_schedule_experiment in the repository.
Packages == {"quac_qiskit", "providers"}

\* hardware_props.gate_length raised BackendPropertyError or AttributeError
\* (no entry for the gate, or hardware_props is None): no gate length at all,
\* held as a value no table entry has.
Missing == 0 - 1

\* Gate lengths a lookup may return, in nanoseconds.  The table holds seconds;
\* an entry d stands for d * 1e-9 s, which the code's "* 1e9" turns into d.
GateLengths == {20}

NoId == 0 - 1

Max(S) == CHOOSE x \in S : \A y \in S : y <= x

Range(s) == {s[i] : i \in 1..Len(s)}

\* The instructions an experiment over n qubits may hold: one-qubit gates and
\* measures on every qubit, a cx on every pair (control below target: the
\* scheduler reads the qubits as a set), a barrier over all qubits.
Gates(n) ==
    {[name |-> g, qubits |-> <<q>>, id |-> NoId] : g \in {"h", "u1", "measure"}, q \in 0..(n - 1)}
    \cup {[name |-> "cx", qubits |-> <<pair[1], pair[2]>>, id |-> NoId] :
              pair \in {p \in (0..(n - 1)) \X (0..(n - 1)) : p[1] < p[2]}}
    \cup {[name |-> "barrier", qubits |-> [i \in 1..n |-> i - 1], id |-> NoId]}

\* The key under which hardware_props holds an instruction's gate length.
PropKey(instruction) == <<instruction.name, instruction.qubits>>

\* The circuit and the gate lengths of the scheduling example:
\* h 50 ns, cx 300 ns, nothing for measure.
ExampleInstructions ==
    << [name |-> "h", qubits |-> <<0>>, id |-> NoId],
       [name |-> "cx", qubits |-> <<0, 1>>, id |-> NoId],
       [name |-> "measure", qubits |-> <<0>>, id |-> NoId],
       [name |-> "measure", qubits |-> <<1>>, id |-> NoId] >>

ExampleProps ==
    (<<"h", <<0>>>> :> 50) @@ (<<"cx", <<0, 1>>>> :> 300)
    @@ (<<"measure", <<0>>>> :> Missing) @@ (<<"measure", <<1>>>> :> Missing)

SeqsUpTo(S, n) == UNION {[1..k -> S] : k \in 0..n}

\* list_schedule_experiment is entered: scheduling_times = [1] * n_qubits,
\* instruction_time_order = [].
SchedEntry ==
    /\ scheduling_times = [q \in 0..(n_qubits - 1) |-> InitialTime]
    /\ instruction_time_order = <<>>
    /\ index = 0
    /\ gate_length = 0
    /\ gate_application_time = 0
    /\ pc = "loop"

\* No experiment is being scheduled.
SchedIdle ==
    /\ package = "quac_qiskit"
    /\ n_qubits = 0
    /\ instructions = <<>>
    /\ hardware_props = <<>>
    /\ scheduling_times = <<>>
    /\ instruction_time_order = <<>>
    /\ index = 0
    /\ gate_length = 0
    /\ gate_application_time = 0
    /\ pc = "idle"

SchedInit ==
    /\ NoiseIdle
    /\ JobIdle
    /\ SvcIdle
    /\ package \in Packages
    /\ \/ /\ n_qubits \in 1..MaxSchedQubits
          /\ instructions \in SeqsUpTo(Gates(n_qubits), MaxInstructions)
          /\ hardware_props = <<>>
       \/ /\ n_qubits = 2
          /\ instructions = ExampleInstructions
          /\ hardware_props = ExampleProps
    /\ SchedEntry

\* gate_application_time = max([scheduling_times[qubit] for qubit in instruction.qubits])
MutGateApplicationTime(times, instruction) ==
    times[instruction.qubits[1]]

GateApplicationTime(times, instruction) ==
    Max({times[q] : q \in Range(instruction.qubits)})

\* The gate length the loop uses: the looked-up value, 0 when the lookup
\* raised, and in package quac_qiskit always 10 for u1.
UsedGateLength(pkg, instruction, looked_up) ==
    IF pkg = "quac_qiskit" /\ instruction.name = "u1" THEN U1Length
    ELSE IF looked_up = Missing THEN 0
    ELSE looked_up

\* scheduling_times[qubit] += gate_length, without the assignment before it.
MutAdvanceTimes(times, instruction, start, length) ==
    [q \in DOMAIN times |->
        IF q \in Range(instruction.qubits) THEN times[q] + length ELSE times[q]]

\* for qubit in instruction.qubits:
\*     scheduling_times[qubit] = gate_application_time; += gate_length
AdvanceTimes(times, instruction, start, length) ==
    [q \in DOMAIN times |->
        IF q \in Range(instruction.qubits) THEN start + length ELSE times[q]]

\* instruction.id = index, with index counted from 1.
MutAssignId(instrs, idx) == [instrs EXCEPT ![idx + 1].id = idx + 1]

\* instruction.id = index (index counts from 0; the sequence from 1).
AssignId(instrs, idx) == [instrs EXCEPT ![idx + 1].id = idx]

\* One iteration of the scheduling loop.  The lookup reads hardware_props;
\* an entry read for the first time takes any value a table can hold.
ScheduleInstruction ==
    /\ pc = "loop"
    /\ index < Len(instructions)
    /\ LET instruction == instructions[index + 1]
           key == PropKey(instruction)
       IN \E looked_up \in (IF key \in DOMAIN hardware_props
                             THEN {hardware_props[key]}
                             ELSE GateLengths \cup {Missing}) :
            /\ hardware_props' = (key :> looked_up) @@ hardware_props
            /\ instructions' = AssignId(instructions, index)
            /\ gate_application_time' = GateApplicationTime(scheduling_times, instruction)
            /\ gate_length' = UsedGateLength(package, instruction, looked_up)
            /\ scheduling_times' = AdvanceTimes(scheduling_times, instruction,
                                                gate_application_time', gate_length')
            /\ instruction_time_order' =
                   Append(instruction_time_order,
                          [obj |-> index + 1, time |-> gate_application_time'])
            /\ index' = index + 1
    /\ UNCHANGED <<svc_vars, package, n_qubits, pc, noise_vars, job_vars>>

\* An insertion that puts a pair before the pairs of equal time.
RECURSIVE MutInsertByTime(_, _)
MutInsertByTime(sorted, pair) ==
    IF sorted = <<>> THEN <<pair>>
    ELSE IF sorted[Len(sorted)].time < pair.time THEN Append(sorted, pair)
    ELSE Append(MutInsertByTime(SubSeq(sorted, 1, Len(sorted) - 1), pair), sorted[Len(sorted)])

\* list.sort(key=lambda pair: pair[1]): a stable sort, by insertion.
RECURSIVE InsertByTime(_, _)
InsertByTime(sorted, pair) ==
    IF sorted = <<>> THEN <<pair>>
    ELSE IF sorted[Len(sorted)].time <= pair.time THEN Append(sorted, pair)
    ELSE Append(InsertByTime(SubSeq(sorted, 1, Len(sorted) - 1), pair), sorted[Len(sorted)])

RECURSIVE SortByTimePrefix(_, _)
SortByTimePrefix(pairs, k) ==
    IF k = 0 THEN <<>>
    ELSE InsertByTime(SortByTimePrefix(pairs, k - 1), pairs[k])

SortByTime(pairs) == SortByTimePrefix(pairs, Len(pairs))

\* The loop is over: sort and return.
ScheduleReturn ==
    /\ pc = "loop"
    /\ index = Len(instructions)
    /\ instruction_time_order' = SortByTime(instruction_time_order)
    /\ pc' = "done"
    /\ UNCHANGED <<svc_vars, package, n_qubits, instructions, hardware_props, scheduling_times,
                   index, gate_length, gate_application_time, noise_vars, job_vars>>

SchedNext == ScheduleInstruction \/ ScheduleReturn

SpecSched == SchedInit /\ [][SchedNext]_vars

(***************************************************************************)
(* Numbers.  A float is held as a decimal m * 10^e in normal form (m has no *)
(* trailing zero, and 0 is 0 * 10^0), or as an infinity; so equal numbers  *)
(* are equal records, and scaling by a power of ten is exact.  The binary  *)
(* rounding of the floats is not modelled.                                 *)
(***************************************************************************)
RECURSIVE Norm(_)
Norm(x) ==
    IF x.inf THEN x
    ELSE IF x.m = 0 THEN [inf |-> FALSE, m |-> 0, e |-> 0]
    ELSE IF x.m % 10 = 0 THEN Norm([inf |-> FALSE, m |-> x.m \div 10, e |-> x.e + 1])
    ELSE x

Dec(m, e) == Norm([inf |-> FALSE, m |-> m, e |-> e])

\* float('inf')
Inf == [inf |-> TRUE, m |-> 1, e |-> 0]

RECURSIVE Pow10(_)
Pow10(k) == IF k <= 0 THEN 1 ELSE 10 * Pow10(k - 1)

Min2(a, b) == IF a <= b THEN a ELSE b

\* x + y, for finite x and y
Add(x, y) ==
    LET e0 == Min2(x.e, y.e)
    IN Dec(x.m * Pow10(x.e - e0) + y.m * Pow10(y.e - e0), e0)

\* x * y, for finite x and y
Mul(x, y) == Dec(x.m * y.m, x.e + y.e)

\* 1 - x
OneMinus(x) ==
    IF x.inf THEN [inf |-> TRUE, m |-> 0 - x.m, e |-> 0]
    ELSE Add(Dec(1, 0), Dec(0 - x.m, x.e))

(***************************************************************************)
(* QuacNoiseModel.                                                         *)
(***************************************************************************)
\* QuacNoiseModel.__init__
QuacNoiseModel(t1_times, t2_times, meas_matrices, zz) ==
    [t1_times |-> t1_times,
     t2_times |-> t2_times,
     meas_matrices |-> meas_matrices,
     full_meas_matrices |-> <<>>,
     zz |-> zz]

\* float('inf') in times and len(set(times)) == 1, without the set's size.
MutIsDisabled(times) == Inf \in Range(times)

\* float('inf') in times and len(set(times)) == 1
IsDisabled(times) == Inf \in Range(times) /\ Cardinality(Range(times)) = 1

\* QuacNoiseModel.has_t1
HasT1(self) == ~IsDisabled(self.t1_times)

\* QuacNoiseModel.has_t2
HasT2(self) == ~IsDisabled(self.t2_times)

\* QuacNoiseModel.has_meas
HasMeas(self) == self.meas_matrices # None

\* QuacNoiseModel.has_zz
HasZz(self) == self.zz # None

\* QuacNoiseModel.get_noiseless_model
GetNoiselessModel(n) ==
    QuacNoiseModel([q \in 1..n |-> Inf], [q \in 1..n |-> Inf], None, None)

(***************************************************************************)
(* has_t1 and has_t2 asked of noise models with any T1 and T2 lists.       *)
(***************************************************************************)
\* T1 and T2 times, in ns: 30000, 45000, or infinite.
TimeValues == {Inf, Dec(3, 4), Dec(45, 3)}

HasInit ==
    /\ SchedIdle
    /\ JobIdle
    /\ SvcIdle
    /\ \E n \in 0..MaxHasQubits :
          \E t1 \in [1..n -> TimeValues], t2 \in [1..n -> {Inf, Dec(45, 3)}] :
              model = QuacNoiseModel(t1, t2, None, None)
    /\ returned = None
    /\ ArrayIdle
    /\ MeasIdle

\* model = QuacNoiseModel.get_noiseless_model(n)
CallGetNoiselessModel ==
    /\ \E n \in 0..MaxHasQubits : model' = GetNoiselessModel(n)
    /\ returned' = Some([op |-> "get_noiseless_model"])
    /\ UNCHANGED <<svc_vars, job_vars, sched_vars, array_vars, meas_vars>>

\* model.has_t1()
CallHasT1 ==
    /\ returned' = Some([op |-> "has_t1", value |-> HasT1(model)])
    /\ UNCHANGED <<svc_vars, job_vars, sched_vars, model, array_vars, meas_vars>>

\* model.has_t2()
CallHasT2 ==
    /\ returned' = Some([op |-> "has_t2", value |-> HasT2(model)])
    /\ UNCHANGED <<svc_vars, job_vars, sched_vars, model, array_vars, meas_vars>>

HasNext == CallGetNoiselessModel \/ CallHasT1 \/ CallHasT2

SpecHas == HasInit /\ [][HasNext]_vars

(***************************************************************************)
(* The flat-array encoding: to_array and from_array.                       *)
(***************************************************************************)
RECURSIVE Log10(_)
Log10(k) == IF k < 10 THEN 0 ELSE 1 + Log10(k \div 10)

\* x / 100000: exact on decimals, 100000 being a power of ten
OverScale(x) == IF x.inf THEN x ELSE Dec(x.m, x.e - Log10(ArrayScale))

\* 100000 * x
TimesScale(x) == IF x.inf THEN x ELSE Dec(x.m * ArrayScale, x.e)

\* s[a:b] of Python, for 0 <= a <= b
Slice(s, a, b) == SubSeq(s, a + 1, Min2(b, Len(s)))

\* list(meas_matrix.diagonal()) of every matrix, in order
RECURSIVE Diagonals(_)
Diagonals(mats) ==
    IF mats = <<>> THEN <<>>
    ELSE <<mats[1][1][1], mats[1][2][2]>> \o Diagonals(Tail(mats))

\* for qubit1 in range(n): for qubit2 in range(n): if qubit1 < qubit2:
\* the pairs from step k = qubit1 * n + qubit2 of the two loops on
RECURSIVE PairsFrom(_, _)
PairsFrom(n, k) ==
    IF k >= n * n THEN <<>>
    ELSE (IF k \div n < k % n THEN << <<k \div n, k % n>> >> ELSE <<>>) \o PairsFrom(n, k + 1)

\* The same loops with "if qubit1 <= qubit2".
RECURSIVE MutPairsFrom(_, _)
MutPairsFrom(n, k) ==
    IF k >= n * n THEN <<>>
    ELSE (IF k \div n <= k % n THEN << <<k \div n, k % n>> >> ELSE <<>>) \o MutPairsFrom(n, k + 1)

MutPairsInOrder(n) == MutPairsFrom(n, 0)

PairsInOrder(n) == PairsFrom(n, 0)

\* QuacNoiseModel.to_array
ToArray(self) ==
    LET n == Len(self.t1_times)
        times == self.t1_times \o self.t2_times
        with_meas == IF HasMeas(self)
                     THEN times \o Diagonals(self.meas_matrices.val)
                     ELSE times
        pairs == PairsInOrder(n)
    IN IF HasZz(self) /\ \E i \in 1..Len(pairs) : pairs[i] \notin DOMAIN self.zz.val
       THEN Raise("KeyError")
       ELSE LET list_form == IF HasZz(self)
                             THEN with_meas \o [i \in 1..Len(pairs) |-> self.zz.val[pairs[i]]]
                             ELSE with_meas
            IN Ok([i \in 1..Len(list_form) |-> OverScale(list_form[i])])

\* QuacNoiseModel.from_array
FromArray(arr, n) ==
    LET list_array == [i \in 1..Len(arr) |-> TimesScale(arr[i])]
        t1_times == Slice(list_array, 0, n)
        t2_times == Slice(list_array, n, 2 * n)
        meas_diagonals == Slice(list_array, 2 * n, 4 * n)
        diagonal(qubit) == Slice(meas_diagonals, 2 * qubit, 2 * qubit + 2)
        meas_matrices ==
            [q \in 1..n |->
                << <<diagonal(q - 1)[1], OneMinus(diagonal(q - 1)[2])>>,
                   <<OneMinus(diagonal(q - 1)[1]), diagonal(q - 1)[2]>> >>]
        zz_compressed == Slice(list_array, 4 * n, Len(list_array))
        pairs == PairsInOrder(n)
    IN IF Len(arr) = 2 * n
       THEN Ok(QuacNoiseModel(t1_times, t2_times, None, None))
       ELSE IF \E qubit \in 0..(n - 1) : Len(diagonal(qubit)) < 2
       THEN Raise("IndexError")
       ELSE IF Len(arr) = 4 * n
       THEN Ok(QuacNoiseModel(t1_times, t2_times, Some(meas_matrices), None))
       ELSE IF Len(zz_compressed) < Len(pairs)
       THEN Raise("IndexError")
       ELSE Ok(QuacNoiseModel(t1_times, t2_times, Some(meas_matrices),
                              Some([pair \in Range(pairs) |->
                                       zz_compressed[CHOOSE i \in 1..Len(pairs) : pairs[i] = pair]])))

\* 2x2 measurement matrices [[P(0|0), P(0|1)], [P(1|0), P(1|1)]] whose
\* columns sum to 1.
MeasChoices ==
    { << <<Dec(9, -1), Dec(2, -1)>>, <<Dec(1, -1), Dec(8, -1)>> >>,
      << <<Dec(7, -1), Dec(0, 0)>>, <<Dec(3, -1), Dec(1, 0)>> >> }

\* ZZ mappings over n qubits, in GHz: a different value for every pair, or
\* the same for all.
ZzChoices(n) ==
    LET pairs == {p \in (0..(n - 1)) \X (0..(n - 1)) : p[1] < p[2]}
    IN { [p \in pairs |-> Dec(1 + n * p[1] + p[2], -5)], [p \in pairs |-> Dec(7, -5)] }

\* The noise models that are encoded: any mix of finite and infinite times,
\* with or without measurement matrices, with or without a ZZ mapping (which
\* takes two qubits).
ArrayModels ==
    UNION { { QuacNoiseModel(t1, t2, meas, zz) :
                  t1 \in [1..n -> {Inf, Dec(3, 4)}],
                  t2 \in [1..n -> {Inf, Dec(45, 3)}],
                  meas \in {None} \cup {Some(mats) : mats \in [1..n -> MeasChoices]},
                  zz \in {None} \cup (IF n >= 2 THEN {Some(z) : z \in ZzChoices(n)} ELSE {}) }
            : n \in 1..MaxArrayQubits }

\* The arrays that are decoded for n qubits: of every length from 2n to that
\* of a full encoding and beyond, every entry different from the others.
ArrayInputs(n) ==
    { [i \in 1..len |-> Dec(seed + i, -6)] :
          len \in (2 * n)..(4 * n + (n * (n - 1)) \div 2 + MaxExtra), seed \in {0, 20} }

ArrayInit ==
    /\ SchedIdle
    /\ JobIdle
    /\ SvcIdle
    /\ MeasIdle
    /\ returned = None
    /\ recovered = None
    /\ \/ /\ model \in ArrayModels
          /\ array = None
          /\ n_arg = Len(model.t1_times)
       \/ /\ model = None
          /\ n_arg \in 1..MaxArrayQubits
          /\ array \in {Ok(arr) : arr \in ArrayInputs(n_arg)}

\* array = model.to_array()
CallToArray ==
    /\ model # None
    /\ array = None
    /\ array' = ToArray(model)
    /\ returned' = Some([op |-> "to_array"])
    /\ UNCHANGED <<svc_vars, job_vars, sched_vars, model, n_arg, recovered, meas_vars>>

\* recovered = QuacNoiseModel.from_array(array, n_arg)
CallFromArray ==
    /\ array # None
    /\ array.ok
    /\ recovered = None
    /\ recovered' = FromArray(array.val, n_arg)
    /\ returned' = Some([op |-> "from_array"])
    /\ UNCHANGED <<svc_vars, job_vars, sched_vars, model, array, n_arg, meas_vars>>

ArrayNext == CallToArray \/ CallFromArray

SpecArray == ArrayInit /\ [][ArrayNext]_vars

(***************************************************************************)
(* The composed measurement operators: build_full_measurement_matrices,    *)
(* meas, and their use by the density simulator.                           *)
(***************************************************************************)
Zero == Dec(0, 0)

One == Dec(1, 0)

\* sparse.eye(2)
Eye2 == << <<One, Zero>>, <<Zero, One>> >>

\* sparse.kron(a, b): block (i, j) of the product is a[i][j] * b
Kron(a, b) ==
    LET rows == Len(b)
        cols == Len(b[1])
    IN [i \in 1..(Len(a) * rows) |->
           [j \in 1..(Len(a[1]) * cols) |->
               Mul(a[((i - 1) \div rows) + 1][((j - 1) \div cols) + 1],
                   b[((i - 1) % rows) + 1][((j - 1) % cols) + 1])]]

\* for ind in range(n_qubits): kron with the qubit's matrix when qubit == ind,
\* with the identity otherwise; the loop from ind on
RECURSIVE ExpandFrom(_, _, _, _, _)
ExpandFrom(mats, n, qubit, ind, expanded) ==
    IF ind >= n THEN expanded
    ELSE ExpandFrom(mats, n, qubit, ind + 1,
                    Kron(expanded, IF qubit = ind THEN mats[qubit + 1] ELSE Eye2))

\* The same loop with the qubit's matrix at position n - 1 - qubit.
MutExpandedQubitMeasMat(mats, n, qubit) ==
    ExpandFrom([q \in 1..n |-> mats[n + 1 - q]], n, n - 1 - qubit, 0, << <<One>> >>)

\* expanded_qubit_meas_mat of one qubit, from sparse.csr_matrix(np.array([1]))
ExpandedQubitMeasMat(mats, n, qubit) ==
    ExpandFrom(mats, n, qubit, 0, << <<One>> >>)

\* QuacNoiseModel.build_full_measurement_matrices: self after the call.
\* Without measurement matrices it returns a list of identities, which its
\* caller drops, and stores nothing.
BuildFullMeasurementMatrices(self) ==
    LET n == Len(self.t1_times)
    IN IF self.meas_matrices = None THEN self
       ELSE [self EXCEPT !.full_meas_matrices =
                [q \in 1..n |-> ExpandedQubitMeasMat(self.meas_matrices.val, n, q - 1)]]

\* QuacNoiseModel.meas: self after the call; it returns self._full_meas_matrices
Meas(self) ==
    IF Len(self.full_meas_matrices) = 0 THEN BuildFullMeasurementMatrices(self) ELSE self

\* The sum of the first k terms of a sequence of numbers
RECURSIVE SumTo(_, _)
SumTo(terms, k) == IF k = 0 THEN Zero ELSE Add(SumTo(terms, k - 1), terms[k])

\* np.dot(matrix, vector)
Dot(matrix, vector) ==
    [i \in 1..Len(matrix) |->
        SumTo([j \in 1..Len(vector) |-> Mul(matrix[i][j], vector[j])], Len(vector))]

\* for expanded_qubit_meas_mat in meas(): bitstring_probs = np.dot(mat, bitstring_probs)
RECURSIVE ApplyAll(_, _, _)
ApplyAll(matrices, vector, k) ==
    IF k = 0 THEN vector ELSE Dot(matrices[k], ApplyAll(matrices, vector, k - 1))

\* The probability vectors of an engine over n qubits: every basis state, and
\* a vector whose entries all differ.
ProbVectors(n) ==
    LET dim == 2 ^ n
    IN { [i \in 1..dim |-> IF i = k THEN One ELSE Zero] : k \in 1..dim }
       \cup { [i \in 1..dim |-> IF i < dim THEN Dec(i, -3)
                                ELSE Dec(1000 - ((dim - 1) * dim) \div 2, -3)] }

MeasInit ==
    /\ SchedIdle
    /\ JobIdle
    /\ SvcIdle
    /\ ArrayIdle
    /\ returned = None
    /\ build_calls = 0
    /\ meas_calls = 0
    /\ bitstring_probs = None
    /\ \E n \in 1..MaxMeasQubits :
          /\ model \in { QuacNoiseModel([q \in 1..n |-> Inf], [q \in 1..n |-> Inf], meas, None) :
                             meas \in {None} \cup {Some(mats) : mats \in [1..n -> MeasChoices]} }
          /\ raw_probs \in {Some(probs) : probs \in ProbVectors(n)}

\* model.meas()
CallMeas ==
    /\ meas_calls < MaxMeasCalls
    /\ meas_calls' = meas_calls + 1
    /\ build_calls' = IF Len(model.full_meas_matrices) = 0 THEN build_calls + 1 ELSE build_calls
    /\ model' = Meas(model)
    /\ returned' = Some([op |-> "meas", value |-> model'.full_meas_matrices])
    /\ UNCHANGED <<svc_vars, job_vars, sched_vars, array_vars, raw_probs, bitstring_probs>>

\* QuacDensitySimulator._run_job: the probabilities of the final state,
\* adjusted by the measurement operators when the noise model has them.
AdjustProbs ==
    /\ bitstring_probs = None
    /\ IF HasMeas(model)
       THEN /\ meas_calls < MaxMeasCalls
            /\ meas_calls' = meas_calls + 1
            /\ build_calls' = IF Len(model.full_meas_matrices) = 0
                              THEN build_calls + 1 ELSE build_calls
            /\ model' = Meas(model)
            /\ bitstring_probs' =
                   Some(ApplyAll(model'.full_meas_matrices, raw_probs.val,
                                 Len(model'.full_meas_matrices)))
       ELSE /\ bitstring_probs' = raw_probs
            /\ UNCHANGED <<svc_vars, model, meas_calls, build_calls>>
    /\ returned' = Some([op |-> "_run_job"])
    /\ UNCHANGED <<svc_vars, job_vars, sched_vars, array_vars, raw_probs>>

MeasNext == CallMeas \/ AdjustProbs

SpecMeas == MeasInit /\ [][MeasNext]_vars

(***************************************************************************)
(* QuacSimulator._run_experiment: the experiment is scheduled, its gates   *)
(* are added to a quac.Circuit, and the circuit is run on a quac.Instance. *)
(* Its scheduling loop is the loop of list_schedule_experiment in package  *)
(* providers (no fixed u1 length, no instruction.id), on the same locals.  *)
(***************************************************************************)
\* QuacSimulator.__init__: if hardware_conf and hardware_props
HardwareSpecified(hardware_conf, hardware_props_given) ==
    hardware_conf /\ hardware_props_given

\* bool(x) of a run_config entry; the entries a caller passes here are None,
\* True, a non-empty list or dictionary, or a non-zero number.
Truthy(x) == x # None

\* The rotation angles of the experiments, in units the engine takes as is.
Angles == {3}

\* The instructions of an experiment that is run: QasmQobjInstruction with
\* name, qubits, params and memory.  Gates act on the first two qubits,
\* measures and the barrier on all; czx is a two-qubit basis gate of the
\* generic configuration other than cx.
RunGates(n) ==
    {[name |-> "h", qubits |-> <<q>>, params |-> <<>>, memory |-> <<>>] :
         q \in 0..(Min2(n, 2) - 1)}
    \cup {[name |-> "id", qubits |-> <<0>>, params |-> <<>>, memory |-> <<>>]}
    \cup {[name |-> "u1", qubits |-> <<0>>, params |-> <<lam>>, memory |-> <<>>] : lam \in Angles}
    \cup {[name |-> "measure", qubits |-> <<q>>, params |-> <<>>, memory |-> <<q>>] :
              q \in 0..(n - 1)}
    \cup {[name |-> g, qubits |-> <<0, 1>>, params |-> <<>>, memory |-> <<>>] :
              g \in IF n >= 2 THEN {"cx", "czx"} ELSE {}}
    \cup {[name |-> "barrier", qubits |-> [i \in 1..n |-> i - 1], params |-> <<>>,
           memory |-> <<>>]}

\* run_config["lindblad"]: T1 and T2 of every qubit, in ns (the dictionary's
\* keys str(qubit) are held as the qubit).
LindbladTimes(n) == [q \in 0..(n - 1) |-> [T1 |-> Dec(6, 4), T2 |-> Dec(5, 4)]]

\* What a caller may pass as run_config: each entry is absent (get gives
\* None) or given.
LindbladChoices(n) == {None, Some(LindbladTimes(n))}

NoNoiseChoices == {None, Some(TRUE)}

GateTimesChoices == {None, Some(<<1>>)}

SimulationLengthChoices == {None, Some(5)}

TimeStepChoices == {None, Some(2)}

\* The gate lengths of a hardware backend, in ns (an entry d stands for the
\* d * 1e-9 s that the code's "* 1e9" turns into d): one backend with lengths
\* for h and cx alone, one with a length for every instruction.
GateLengthTables(n) ==
    LET keys == {PropKey(instruction) : instruction \in RunGates(n)}
    IN { [key \in keys |-> IF key[1] \in {"h", "cx"} THEN 20 ELSE Missing],
         [key \in keys |-> 20] }

\* self.properties().qubit_property(qubit, name)[0] * 1e9: the T1 or T2 of
\* the hardware, in ns.
QubitProperty(qubit, name) ==
    IF name = "T1" THEN Dec(50 + qubit, 3) ELSE Dec(70 + qubit, 3)

\* quac.Instance(): nothing has been called on it.
Instance ==
    [num_qubits |-> 0,
     qubits_created |-> FALSE,
     lindblad |-> <<>>,
     density_matrix |-> FALSE,
     circuit |-> None,
     run |-> None]

\* not self._hardware_specified and not lindblad and not no_noise, without
\* the no_noise flag.
MutNoNoiseSource(specified, lindblad, no_noise) ==
    ~specified /\ ~Truthy(lindblad)

\* not self._hardware_specified and not lindblad and not no_noise
NoNoiseSource(specified, lindblad, no_noise) ==
    ~specified /\ ~Truthy(lindblad) /\ ~Truthy(no_noise)

\* _run_experiment is called: nothing of it has run.
RunEntry ==
    /\ run_config = <<>>
    /\ quac_circuit = None
    /\ quac_simulator = None
    /\ qubit_measurements = <<>>
    /\ warned = <<>>
    /\ run_result = None
    /\ scheduling_times = <<>>
    /\ instruction_time_order = <<>>
    /\ index = 0
    /\ gate_length = 0
    /\ gate_application_time = 0
    /\ pc = "options"

RunInit ==
    /\ NoiseIdle
    /\ FormatIdle
    /\ SvcIdle
    /\ package = "providers"
    /\ \E hardware_conf, hardware_props_given \in BOOLEAN :
          hardware_specified = HardwareSpecified(hardware_conf, hardware_props_given)
    /\ n_qubits \in 1..MaxRunQubits
    /\ instructions \in SeqsUpTo(RunGates(n_qubits), MaxRunInstructions)
    /\ hardware_props \in (IF hardware_specified THEN GateLengthTables(n_qubits) ELSE {<<>>})
    /\ RunEntry

\* Lines 121-139: the engine instance, the noise options and their check,
\* the gate times, the circuit, the counters.
RunOptions ==
    /\ pc = "options"
    /\ quac_simulator' = Instance
    /\ \E lindblad \in LindbladChoices(n_qubits), no_noise \in NoNoiseChoices :
          IF NoNoiseSource(hardware_specified, lindblad, no_noise)
          THEN /\ run_config' = ("lindblad" :> lindblad) @@ ("no_noise" :> no_noise)
               /\ run_result' = Raise("QuacOptionsError")
               /\ pc' = "raised"
               /\ UNCHANGED <<svc_vars, quac_circuit, scheduling_times>>
          ELSE \E gate_times \in GateTimesChoices :
               /\ run_config' = ("lindblad" :> lindblad) @@ ("no_noise" :> no_noise)
                                    @@ ("gate_times" :> gate_times)
               /\ quac_circuit' = [size |-> Len(instructions), gates |-> <<>>]
               /\ scheduling_times' = [q \in 0..(n_qubits - 1) |-> InitialTime]
               /\ pc' = "loop"
               /\ UNCHANGED run_result
    /\ UNCHANGED <<svc_vars, package, n_qubits, instructions, hardware_props, instruction_time_order,
                   index, gate_length, gate_application_time, noise_vars,
                   hardware_specified, qubit_measurements, warned, format_vars>>

\* self.properties().gate_property(gate=instruction.name,
\* qubits=instruction.qubits, name="gate_length")[0]: without hardware
\* self.properties() is None and the lookup raises AttributeError.
GateProperty(specified, props, instruction) ==
    IF ~specified THEN Missing ELSE props[PropKey(instruction)]

\* Lines 142-158: one iteration of the scheduling loop.
RunScheduleInstruction ==
    /\ pc = "loop"
    /\ index < Len(instructions)
    /\ LET instruction == instructions[index + 1]
           looked_up == GateProperty(hardware_specified, hardware_props, instruction)
       IN /\ gate_application_time' = GateApplicationTime(scheduling_times, instruction)
          /\ gate_length' = UsedGateLength(package, instruction, looked_up)
          /\ scheduling_times' = AdvanceTimes(scheduling_times, instruction,
                                              gate_application_time', gate_length')
          /\ instruction_time_order' =
                 Append(instruction_time_order,
                        [obj |-> index + 1, time |-> gate_application_time'])
          /\ index' = index + 1
    /\ UNCHANGED <<svc_vars, package, n_qubits, instructions, hardware_props, pc, noise_vars,
                   job_vars>>

\* Line 160: instruction_time_order.sort(key=lambda pair: pair[1])
RunSort ==
    /\ pc = "loop"
    /\ index = Len(instructions)
    /\ instruction_time_order' = SortByTime(instruction_time_order)
    /\ index' = 0
    /\ pc' = "add"
    /\ UNCHANGED <<svc_vars, package, n_qubits, instructions, hardware_props, scheduling_times,
                   gate_length, gate_application_time, noise_vars, job_vars>>

\* The keyword arguments of quac_circuit.add_gate for an instruction that is
\* neither a measure nor a barrier: qubits holds qubit1 and, when it is
\* passed, qubit2; params holds the angles under their keywords.
AddGate(instruction, time) ==
    LET name == instruction.name
        one == <<instruction.qubits[1]>>
    IN IF name = "cx"
       THEN [gate |-> "cnot", qubits |-> <<instruction.qubits[1], instruction.qubits[2]>>,
             time |-> time, params |-> <<>>]
       ELSE IF name = "cz"
       THEN [gate |-> "cz", qubits |-> <<instruction.qubits[1], instruction.qubits[2]>>,
             time |-> time, params |-> <<>>]
       ELSE IF name = "u1"
       THEN [gate |-> "u1", qubits |-> one, time |-> time,
             params |-> ("lam" :> instruction.params[1])]
       ELSE IF name = "u2"
       THEN [gate |-> "u2", qubits |-> one, time |-> time,
             params |-> ("phi" :> instruction.params[1]) @@ ("lam" :> instruction.params[2])]
       ELSE IF name = "u3"
       THEN [gate |-> "u3", qubits |-> one, time |-> time,
             params |-> ("theta" :> instruction.params[1]) @@ ("phi" :> instruction.params[2])
                            @@ ("lam" :> instruction.params[3])]
       ELSE IF name \in {"rx", "ry", "rz"}
       THEN [gate |-> name, qubits |-> one, time |-> time,
             params |-> ("theta" :> instruction.params[1])]
       ELSE IF name = "id"
       THEN [gate |-> "i", qubits |-> one, time |-> time, params |-> <<>>]
       ELSE [gate |-> name, qubits |-> one, time |-> time, params |-> <<>>]

\* qubit_measurements[instruction.qubits[0]].append(instruction.memory[0]),
\* on a defaultdict whose default is the empty list
RecordMeasure(measurements, instruction) ==
    LET qubit == instruction.qubits[1]
        slots == IF qubit \in DOMAIN measurements THEN measurements[qubit] ELSE <<>>
    IN (qubit :> Append(slots, instruction.memory[1])) @@ measurements

\* The qubits of the instruction's first qubit alone that are measured.
MutMeasuredQubits(measurements, instruction) ==
    SelectSeq(<<instruction.qubits[1]>>, LAMBDA qubit : qubit \in DOMAIN measurements)

\* for qubit in instruction.qubits: if qubit in qubit_measurements
MeasuredQubits(measurements, instruction) ==
    SelectSeq(instruction.qubits, LAMBDA qubit : qubit \in DOMAIN measurements)

\* Lines 163-221: one iteration of the loop that adds the instructions in
\* the order of their times; one warning for every measured qubit of a gate.
RunAddInstruction ==
    /\ pc = "add"
    /\ index < Len(instruction_time_order)
    /\ LET pair == instruction_time_order[index + 1]
           instruction == instructions[pair.obj]
           measured == MeasuredQubits(qubit_measurements, instruction)
       IN IF instruction.name = "measure"
          THEN /\ qubit_measurements' = RecordMeasure(qubit_measurements, instruction)
               /\ UNCHANGED <<svc_vars, quac_circuit, warned>>
          ELSE IF instruction.name = "barrier"
          THEN UNCHANGED <<svc_vars, qubit_measurements, quac_circuit, warned>>
          ELSE /\ quac_circuit' =
                      [quac_circuit EXCEPT !.gates = Append(@, AddGate(instruction, pair.time))]
               /\ warned' = warned \o [i \in 1..Len(measured) |->
                                          [obj |-> pair.obj, qubit |-> measured[i]]]
               /\ UNCHANGED qubit_measurements
    /\ index' = index + 1
    /\ UNCHANGED <<svc_vars, package, n_qubits, instructions, hardware_props, scheduling_times,
                   instruction_time_order, gate_length, gate_application_time, pc,
                   noise_vars, hardware_specified, run_config, quac_simulator, run_result,
                   format_vars>>

\* 1 / time, the rate handed to the engine: 0 for an infinite time, else held
\* as the time it is the inverse of.
Rate(time) == IF time.inf THEN Dec(0, 0) ELSE [inverse_of |-> time]

\* The T1 and T2 of one qubit, the injected lindblad dictionary first.
MutQubitTimes(specified, lindblad, no_noise, qubit_index) ==
    IF Truthy(lindblad) THEN lindblad.val[qubit_index]
    ELSE IF specified /\ ~Truthy(no_noise)
    THEN [T1 |-> QubitProperty(qubit_index, "T1"), T2 |-> QubitProperty(qubit_index, "T2")]
    ELSE [T1 |-> Inf, T2 |-> Inf]

\* Lines 234-245: the T1 and T2 of one qubit, from the hardware, from the
\* injected lindblad dictionary, or infinite.
QubitTimes(specified, lindblad, no_noise, qubit_index) ==
    IF specified /\ ~Truthy(lindblad) /\ ~Truthy(no_noise)
    THEN [T1 |-> QubitProperty(qubit_index, "T1"), T2 |-> QubitProperty(qubit_index, "T2")]
    ELSE IF Truthy(lindblad) /\ ~Truthy(no_noise)
    THEN lindblad.val[qubit_index]
    ELSE [T1 |-> Inf, T2 |-> Inf]

\* Lines 232-249: add_lindblad_emission and add_lindblad_dephasing of every
\* qubit, in call order.
LindbladTerms(specified, lindblad, no_noise, n) ==
    [i \in 1..(2 * n) |->
        LET qubit_index == (i - 1) \div 2
            times == QubitTimes(specified, lindblad, no_noise, qubit_index)
        IN IF i % 2 = 1
           THEN [term |-> "emission", qubit |-> qubit_index, rate |-> Rate(times.T1)]
           ELSE [term |-> "dephasing", qubit |-> qubit_index, rate |-> Rate(times.T2)]]

\* Lines 224-249: the check that some qubit is measured, then the qubits and
\* the Lindblad terms of the engine.
RunCreateQubits ==
    /\ pc = "add"
    /\ index = Len(instruction_time_order)
    /\ IF DOMAIN qubit_measurements = {}
       THEN /\ run_result' = Raise("QuacBackendError")
            /\ pc' = "raised"
            /\ UNCHANGED quac_simulator
       ELSE /\ quac_simulator' =
                   [quac_simulator EXCEPT
                       !.num_qubits = n_qubits,
                       !.qubits_created = TRUE,
                       !.lindblad = LindbladTerms(hardware_specified, run_config["lindblad"],
                                                  run_config["no_noise"], n_qubits)]
            /\ pc' = "run"
            /\ UNCHANGED run_result
    /\ UNCHANGED <<svc_vars, package, n_qubits, instructions, hardware_props, scheduling_times,
                   instruction_time_order, index, gate_length, gate_application_time,
                   noise_vars, hardware_specified, run_config, quac_circuit,
                   qubit_measurements, warned, format_vars>>

\* Lines 252-256: the simulation length that is run.
SimulationLength(simulation_length, gate_times, times) ==
    IF Truthy(simulation_length) THEN simulation_length.val
    ELSE IF ~Truthy(gate_times) THEN Max(Range([i \in 1..n_qubits |-> times[i - 1]]))
    ELSE gate_times.val[Len(gate_times.val)] + GateTimesMargin

\* Lines 259-261: the time step that is run.
TimeStep(time_step) == IF Truthy(time_step) THEN time_step.val ELSE DefaultTimeStep

\* Lines 251-268: the simulation length and the time step are read, the
\* circuit is run, the instance and the measurements are returned.
RunSimulation ==
    /\ pc = "run"
    /\ \E simulation_length \in SimulationLengthChoices, time_step \in TimeStepChoices :
          /\ run_config' = run_config @@ ("simulation_length" :> simulation_length)
                               @@ ("time_step" :> time_step)
          /\ quac_simulator' =
                 [quac_simulator EXCEPT
                     !.density_matrix = TRUE,
                     !.circuit = Some(quac_circuit),
                     !.run = Some([time |-> SimulationLength(simulation_length,
                                                             run_config["gate_times"],
                                                             scheduling_times),
                                   dt |-> TimeStep(time_step)])]
    /\ run_result' = Ok(qubit_measurements)
    /\ pc' = "done"
    /\ UNCHANGED <<svc_vars, package, n_qubits, instructions, hardware_props, scheduling_times,
                   instruction_time_order, index, gate_length, gate_application_time,
                   noise_vars, hardware_specified, quac_circuit, qubit_measurements, warned,
                   format_vars>>

RunNext ==
    \/ RunOptions
    \/ RunScheduleInstruction
    \/ RunSort
    \/ RunAddInstruction
    \/ RunCreateQubits
    \/ RunSimulation

SpecRun == RunInit /\ [][RunNext]_vars

(***************************************************************************)
(* The result tables: QuacCountsSimulator._run_job draws shots from the    *)
(* probabilities of the final state and counts them under a key, and       *)
(* QuacDensitySimulator._run_job adds the probability of every basis state *)
(* to the key of the classical register the state is measured into.  Here  *)
(* the counts simulator formats its shots first, then the density          *)
(* simulator its states, of the same experiment.                           *)
(***************************************************************************)
\* bin(k)[2:]: the binary digits of k, the most significant first
RECURSIVE Bin(_)
Bin(k) ==
    IF k < 2 THEN <<IF k = 1 THEN "1" ELSE "0">>
    ELSE Append(Bin(k \div 2), IF k % 2 = 1 THEN "1" ELSE "0")

\* str.zfill(width)
Zfill(digits, width) ==
    IF Len(digits) >= width THEN digits
    ELSE [i \in 1..(width - Len(digits)) |-> "0"] \o digits

\* list.reverse(), [::-1]
Reverse(digits) == [i \in 1..Len(digits) |-> digits[Len(digits) + 1 - i]]

\* int(''.join(digits), 2)
RECURSIVE IntBase2(_)
IntBase2(digits) ==
    IF Len(digits) = 0 THEN 0
    ELSE 2 * IntBase2(SubSeq(digits, 1, Len(digits) - 1))
             + (IF digits[Len(digits)] = "1" THEN 1 ELSE 0)

HexDigits == <<"0", "1", "2", "3", "4", "5", "6", "7", "8", "9", "a", "b", "c", "d", "e", "f">>

RECURSIVE HexOf(_)
HexOf(v) ==
    IF v < 16 THEN HexDigits[v + 1] ELSE HexOf(v \div 16) \o HexDigits[(v % 16) + 1]

\* hex(v)
Hex(v) == "0x" \o HexOf(v)

\* hex(int("0b" + bin(outcome)[2:][::-1], 2))
QiskitOutcome(drawn) == Hex(IntBase2(Reverse(Bin(drawn))))

\* for register_slot in qubit_measurements[qubit]:
\*     classical_register[register_slot] = outcome; the first k slots
RECURSIVE WriteSlots(_, _, _, _)
WriteSlots(register, slots, bit, k) ==
    IF k = 0 THEN register
    ELSE [WriteSlots(register, slots, bit, k - 1) EXCEPT ![slots[k] + 1] = bit]

\* for qubit, outcome in enumerate(padded_outcome_state): the first k qubits
RECURSIVE WriteQubits(_, _, _, _)
WriteQubits(register, padded, measurements, k) ==
    IF k = 0 THEN register
    ELSE LET before == WriteQubits(register, padded, measurements, k - 1)
             qubit == k - 1
         IN IF qubit \in DOMAIN measurements
            THEN WriteSlots(before, measurements[qubit], padded[k],
                            Len(measurements[qubit]))
            ELSE before

\* classical_register of one basis state, before it is reversed
ClassicalRegister(state, config, measurements) ==
    LET padded_outcome_state == Zfill(Bin(state), config.n_qubits)
    IN WriteQubits([slot \in 1..config.memory_slots |-> "0"], padded_outcome_state,
                   measurements, Len(padded_outcome_state))

\* The key of a basis state without classical_register.reverse().
MutClassicalRegisterHex(state, config, measurements) ==
    Hex(IntBase2(ClassicalRegister(state, config, measurements)))

\* classical_register.reverse(); hex(int(''.join(classical_register), 2))
ClassicalRegisterHex(state, config, measurements) ==
    Hex(IntBase2(Reverse(ClassicalRegister(state, config, measurements))))

\* frequencies[key] = state_prob
MutAccumulate(table, key, state_prob) == (key :> state_prob) @@ table

\* frequencies[key] += state_prob, on a defaultdict whose default is 0
Accumulate(table, key, state_prob) ==
    (key :> Add(IF key \in DOMAIN table THEN table[key] ELSE Zero, state_prob)) @@ table

\* The measures of an experiment over n qubits and so many classical bits.
Measures(n, memory_slots) ==
    {[name |-> "measure", qubits |-> <<q>>, params |-> <<>>, memory |-> <<c>>] :
         q \in 0..(n - 1), c \in 0..(memory_slots - 1)}

\* qubit_measurements after the first k measures of a schedule
RECURSIVE RecordAll(_, _)
RecordAll(measures, k) ==
    IF k = 0 THEN <<>> ELSE RecordMeasure(RecordAll(measures, k - 1), measures[k])

\* The mappings _run_experiment may return: some qubit is measured.
Measurements(n, memory_slots) ==
    {RecordAll(measures, Len(measures)) :
         measures \in SeqsUpTo(Measures(n, memory_slots), MaxMeasures) \ {<<>>}}

\* for num in range(0, 2 ** num_qubits): frequencies[hex(num)] = 0
ZeroCounts(n) == [key \in {Hex(num) : num \in 0..(2 ^ n - 1)} |-> 0]

\* The indices choose_index may draw: those of non-zero probability.
Drawable(probs) == {k \in 0..(Len(probs) - 1) : probs[k + 1] # Zero}

\* Both simulators have run the experiment: the final state's probabilities
\* (of a noise model without measurement errors) and the mapping are there.
FormatInit ==
    /\ package = "quac_qiskit"
    /\ n_qubits = 0
    /\ instructions = <<>>
    /\ hardware_props = <<>>
    /\ scheduling_times = <<>>
    /\ instruction_time_order = <<>>
    /\ index = 0
    /\ gate_length = 0
    /\ gate_application_time = 0
    /\ pc = "shots"
    /\ AdapterIdle
    /\ SvcIdle
    /\ model = None
    /\ returned = None
    /\ ArrayIdle
    /\ build_calls = 0
    /\ meas_calls = 0
    /\ \E n \in 1..MaxFormatQubits, memory_slots \in 1..MaxMemorySlots, shots \in 0..MaxShots :
          /\ qobj_config = [n_qubits |-> n, memory_slots |-> memory_slots, shots |-> shots]
          /\ qubit_measurements \in Measurements(n, memory_slots)
          /\ raw_probs \in {Some(probs) : probs \in ProbVectors(n)}
          /\ counts = ZeroCounts(n)
    /\ bitstring_probs = raw_probs
    /\ frequencies = <<>>
    /\ decimal_state = 0
    /\ classical_register_hex = None
    /\ shot = 0
    /\ outcome = None
    /\ qiskit_outcome = None

\* QuacCountsSimulator._run_job, lines 94-97: one shot
DrawShot ==
    /\ pc = "shots"
    /\ shot < qobj_config.shots
    /\ \E drawn \in Drawable(raw_probs.val) :
          /\ outcome' = Some(drawn)
          /\ qiskit_outcome' = Some(QiskitOutcome(drawn))
          /\ counts' = [counts EXCEPT ![QiskitOutcome(drawn)] = @ + 1]
    /\ shot' = shot + 1
    /\ UNCHANGED <<svc_vars, sched_vars, noise_vars, adapter_vars, qubit_measurements, qobj_config,
                   frequencies, decimal_state, classical_register_hex>>

\* QuacCountsSimulator._run_job, lines 99-111: the keys without hits are
\* dropped and the result is appended.
ReturnCounts ==
    /\ pc = "shots"
    /\ shot = qobj_config.shots
    /\ counts' = [key \in {state \in DOMAIN counts : counts[state] # 0} |-> counts[key]]
    /\ pc' = "states"
    /\ UNCHANGED <<svc_vars, package, n_qubits, instructions, hardware_props, scheduling_times,
                   instruction_time_order, index, gate_length, gate_application_time,
                   noise_vars, adapter_vars, qubit_measurements, qobj_config, frequencies,
                   decimal_state, classical_register_hex, shot, outcome, qiskit_outcome>>

\* QuacDensitySimulator._run_job, lines 69-84: one basis state
FormatState ==
    /\ pc = "states"
    /\ decimal_state < Len(bitstring_probs.val)
    /\ LET key == ClassicalRegisterHex(decimal_state, qobj_config, qubit_measurements)
       IN /\ classical_register_hex' = Some(key)
          /\ frequencies' = Accumulate(frequencies, key, bitstring_probs.val[decimal_state + 1])
    /\ decimal_state' = decimal_state + 1
    /\ UNCHANGED <<svc_vars, sched_vars, noise_vars, adapter_vars, qubit_measurements, qobj_config,
                   counts, shot, outcome, qiskit_outcome>>

\* QuacDensitySimulator._run_job, lines 86-94: the result is appended.
ReturnDensity ==
    /\ pc = "states"
    /\ decimal_state = Len(bitstring_probs.val)
    /\ pc' = "done"
    /\ UNCHANGED <<svc_vars, package, n_qubits, instructions, hardware_props, scheduling_times,
                   instruction_time_order, index, gate_length, gate_application_time,
                   noise_vars, job_vars>>

FormatNext == DrawShot \/ ReturnCounts \/ FormatState \/ ReturnDensity

SpecFormat == FormatInit /\ [][FormatNext]_vars

(***************************************************************************)
(* choose_index: an index is drawn with the probabilities of a list.  The  *)
(* repository has three copies: utils/math.py and stat/util.py end with    *)
(* return 0, utils/prob.py with return -1.                                 *)
(***************************************************************************)
\* entries of a prob_dist: 1..MaxChoices
MaxChoices == 3

\* The copies of choose_index.
Modules == {"math", "prob", "stat"}

\* x < y, for finite x and y
Less(x, y) ==
    LET e0 == Min2(x.e, y.e)
    IN x.m * Pow10(x.e - e0) < y.m * Pow10(y.e - e0)

\* The entries of a prob_dist, and the values random.random() gives
\* (0 <= chooser < 1).
ProbValues == {Zero, Dec(2, -1), Dec(5, -1)}

ChooserValues == {Zero, Dec(3, -1), Dec(9, -1)}

\* return -1 of utils/prob.py, return 0 of the other copies
Fallback(copy) == IF copy = "prob" THEN 0 - 1 ELSE 0

\* for i, prob in enumerate(prob_dist), from entry i on
RECURSIVE ChooseFrom(_, _, _, _, _, _)
ChooseFrom(copy, dist, draw, i, lower_limit, upper_limit) ==
    IF i >= Len(dist) THEN Fallback(copy)
    ELSE LET upper == Add(upper_limit, dist[i + 1])
         IN IF ~Less(draw, lower_limit) /\ Less(draw, upper) THEN i
            ELSE ChooseFrom(copy, dist, draw, i + 1, Add(lower_limit, dist[i + 1]), upper)

ChooseIndex(copy, dist, draw) == ChooseFrom(copy, dist, draw, 0, Zero, Zero)

ChooseInit ==
    /\ SchedIdle
    /\ NoiseIdle
    /\ JobIdle
    /\ TaskIdle
    /\ BackendIdle
    /\ ProviderIdle
    /\ module \in Modules
    /\ prob_dist \in SeqsUpTo(ProbValues, MaxChoices)
    /\ chooser \in {Some(draw) : draw \in ChooserValues}
    /\ chosen = None

\* choose_index(prob_dist)
CallChooseIndex ==
    /\ chosen = None
    /\ chosen' = Some(ChooseIndex(module, prob_dist, chooser.val))
    /\ UNCHANGED <<sched_vars, noise_vars, job_vars, task_vars, backend_vars, provider_vars,
                   module, prob_dist, chooser>>

ChooseNext == CallChooseIndex

SpecChoose == ChooseInit /\ [][ChooseNext]_vars

(***************************************************************************)
(* QuacJob: a job hands its function to the executor of BasicAerJob; the   *)
(* calls of several threads on one job interleave at the reads and writes  *)
(* of self._future.  A future is pending, then running, then finished with *)
(* the result or the exception of the function.                            *)
(***************************************************************************)
\* threads that call methods of one job: 1..MaxThreads
MaxThreads == 2
\* calls the threads make on the job, all together: 0..MaxCalls
MaxCalls == 3

Threads == 1..MaxThreads

\* What _run_job returns or raises: a Result, a validation error of the
\* options, an error of the backend.
BodyOutcomes == {Ok("Result"), Raise("QuacOptionsError"), Raise("QuacBackendError")}

\* raise JobError("QuaC job already submitted.")
AlreadySubmittedError == Raise("JobError: QuaC job already submitted.")

\* requires_submit of BasicAerJob: raise JobError("Job not submitted yet!...")
NotSubmittedError == Raise("JobError: Job not submitted yet!")

\* A future the executor has just created.
PendingFuture == [state |-> "pending", outcome |-> None]

\* A thread that is in no call.
IdleThread == [pc |-> "idle", op |-> "none", calls |-> 0, ret |-> None, fut |-> 0,
               status |-> "none"]

\* if self._future is not None, never true
MutAlreadySubmitted(self_future) == FALSE

\* if self._future is not None
AlreadySubmitted(self_future) == self_future # None

\* BasicAerJob.status: the order of the tests on the future
JobStatus(task) ==
    IF task.state = "running" THEN "RUNNING"
    ELSE IF task.state = "finished"
         THEN (IF task.outcome.val.ok THEN "DONE" ELSE "ERROR")
         ELSE "INITIALIZING"

\* future.result(), always the returned value
MutFutureResult(task) == Ok("Result")

\* future.result() of a finished future: the result, or the exception raised
FutureResult(task) == task.outcome.val

\* The job is constructed: by backend.run(), which has not submitted it yet,
\* or directly by the caller.
TaskInit ==
    /\ SchedIdle
    /\ NoiseIdle
    /\ JobIdle
    /\ ChooseIdle
    /\ BackendIdle
    /\ ProviderIdle
    /\ future = None
    /\ executor = <<>>
    /\ threads = [t \in Threads |-> IdleThread]
    /\ run_pc \in {"none", "called"}

\* QuacSimulator.run, lines 93-96: job.submit() on the job just built, which
\* no other thread can reach before run returns.
BackendRun ==
    /\ run_pc = "called"
    /\ IF AlreadySubmitted(future)
       THEN /\ run_pc' = "raised"
            /\ UNCHANGED <<future, executor>>
       ELSE /\ executor' = Append(executor, PendingFuture)
            /\ future' = Some(Len(executor) + 1)
            /\ run_pc' = "returned"
    /\ UNCHANGED <<sched_vars, noise_vars, job_vars, choose_vars, backend_vars, provider_vars,
                   threads>>

\* The caller holds the job.
JobReachable == run_pc \in {"none", "returned"}

\* The calls made so far by the threads up to t.
RECURSIVE CallsUpTo(_)
CallsUpTo(t) == IF t = 0 THEN 0 ELSE CallsUpTo(t - 1) + threads[t].calls

\* Thread t starts a call.
MayCall(t) ==
    /\ JobReachable
    /\ threads[t].pc = "idle"
    /\ CallsUpTo(MaxThreads) < MaxCalls

Called(t, op) == [threads[t] EXCEPT !.op = op, !.calls = @ + 1, !.ret = None,
                                    !.status = "none"]

\* QuacJob.submit, lines 22-23: the test of self._future
SubmitCheck(t) ==
    /\ MayCall(t)
    /\ threads' = [threads EXCEPT ![t] =
          IF AlreadySubmitted(future)
          THEN [Called(t, "submit") EXCEPT !.ret = AlreadySubmittedError]
          ELSE [Called(t, "submit") EXCEPT !.pc = "submit"]]
    /\ UNCHANGED <<sched_vars, noise_vars, job_vars, choose_vars, backend_vars, provider_vars,
                   future, executor, run_pc>>

\* QuacJob.submit, lines 25-26: self._executor.submit(self._fn, ...)
SubmitHand(t) ==
    /\ threads[t].pc = "submit"
    /\ executor' = Append(executor, PendingFuture)
    /\ threads' = [threads EXCEPT ![t].pc = "store", ![t].fut = Len(executor) + 1]
    /\ UNCHANGED <<sched_vars, noise_vars, job_vars, choose_vars, backend_vars, provider_vars,
                   future, run_pc>>

\* QuacJob.submit, line 25: self._future = (the future the executor returned)
SubmitStore(t) ==
    /\ threads[t].pc = "store"
    /\ future' = Some(threads[t].fut)
    /\ threads' = [threads EXCEPT ![t].pc = "idle", ![t].ret = Ok("None")]
    /\ UNCHANGED <<sched_vars, noise_vars, job_vars, choose_vars, backend_vars, provider_vars,
                   executor, run_pc>>

\* QuacJob.status, line 32: super().status(), behind requires_submit
StatusBegin(t) ==
    /\ MayCall(t)
    /\ threads' = [threads EXCEPT ![t] =
          IF future = None
          THEN [Called(t, "status") EXCEPT !.ret = NotSubmittedError]
          ELSE [Called(t, "status") EXCEPT !.pc = "exception", !.fut = future.val,
                                           !.status = JobStatus(executor[future.val])]]
    /\ UNCHANGED <<sched_vars, noise_vars, job_vars, choose_vars, backend_vars, provider_vars,
                   future, executor, run_pc>>

\* QuacJob.status, lines 33-34: self._future.exception() returns when the
\* future is finished; then the status is returned.
StatusReturn(t) ==
    /\ threads[t].pc = "exception"
    /\ executor[threads[t].fut].state = "finished"
    /\ threads' = [threads EXCEPT ![t].pc = "idle", ![t].ret = Ok(threads[t].status)]
    /\ UNCHANGED <<sched_vars, noise_vars, job_vars, choose_vars, backend_vars, provider_vars,
                   future, executor, run_pc>>

\* BasicAerJob.result, behind requires_submit: self._future.result()
ResultBegin(t) ==
    /\ MayCall(t)
    /\ threads' = [threads EXCEPT ![t] =
          IF future = None
          THEN [Called(t, "result") EXCEPT !.ret = NotSubmittedError]
          ELSE [Called(t, "result") EXCEPT !.pc = "result", !.fut = future.val]]
    /\ UNCHANGED <<sched_vars, noise_vars, job_vars, choose_vars, backend_vars, provider_vars,
                   future, executor, run_pc>>

\* self._future.result() returns when the future is finished.
ResultReturn(t) ==
    /\ threads[t].pc = "result"
    /\ executor[threads[t].fut].state = "finished"
    /\ threads' = [threads EXCEPT ![t].pc = "idle",
                                  ![t].ret = FutureResult(executor[threads[t].fut])]
    /\ UNCHANGED <<sched_vars, noise_vars, job_vars, choose_vars, backend_vars, provider_vars,
                   future, executor, run_pc>>

\* A worker of the executor takes a pending future and calls the function.
StartBody(i) ==
    /\ executor[i].state = "pending"
    /\ executor' = [executor EXCEPT ![i].state = "running"]
    /\ UNCHANGED <<sched_vars, noise_vars, job_vars, choose_vars, backend_vars, provider_vars,
                   future, threads, run_pc>>

\* The function returns or raises in the worker: the future keeps either.
FinishBody(i) ==
    /\ executor[i].state = "running"
    /\ \E body_outcome \in BodyOutcomes :
          executor' = [executor EXCEPT ![i] = [state |-> "finished",
                                               outcome |-> Some(body_outcome)]]
    /\ UNCHANGED <<sched_vars, noise_vars, job_vars, choose_vars, backend_vars, provider_vars,
                   future, threads, run_pc>>

TaskNext ==
    \/ BackendRun
    \/ \E t \in Threads :
          \/ SubmitCheck(t)
          \/ SubmitHand(t)
          \/ SubmitStore(t)
          \/ StatusBegin(t)
          \/ StatusReturn(t)
          \/ ResultBegin(t)
          \/ ResultReturn(t)
    \/ \E i \in 1..Len(executor) :
          \/ StartBody(i)
          \/ FinishBody(i)

SpecTask == TaskInit /\ [][TaskNext]_vars

(***************************************************************************)
(* QuacNoiseModel.from_backend and flip_prob: a noise model is loaded from *)
(* the properties of a hardware backend, or decoded from an array, and the *)
(* entries of its measurement matrices are asked.                          *)
(***************************************************************************)
\* qubits of a backend a noise model is loaded from: 1..MaxBackendQubits
MaxBackendQubits == 2

\* backend.properties().qubit_property(qubit, "prob_meas0_prep1")[0] and
\* ... "prob_meas1_prep0")[0] of one qubit: different, or the same.
MeasProps ==
    { [prob_meas0_prep1 |-> Dec(2, -1), prob_meas1_prep0 |-> Dec(1, -1)],
      [prob_meas0_prep1 |-> Dec(1, -1), prob_meas1_prep0 |-> Dec(1, -1)] }

\* The properties of one qubit: T1 and T2 in seconds, and the measurement
\* errors, which not every backend has.
QubitProps ==
    { [t1 |-> Dec(3, -5), t2 |-> Dec(45, -6), meas |-> meas] :
          meas \in {None} \cup {Some(props) : props \in MeasProps} }

Backends ==
    UNION { { [qubits |-> qubits] : qubits \in [1..n -> QubitProps] }
            : n \in 1..MaxBackendQubits }

\* kwargs of from_backend: every key is absent or True.
KwargsChoices == [{"t1", "t2", "meas"} -> {None, Some(TRUE)}]

\* backend.properties().t1(qubit) * 1e9
TimesE9(x) == Dec(x.m, x.e + 9)

\* np.array([[1 - prob_meas1_prep0, prob_meas0_prep1],
\*           [prob_meas1_prep0, 1 - prob_meas0_prep1]])
ErrorMatrix(props) ==
    << <<OneMinus(props.prob_meas1_prep0), props.prob_meas0_prep1>>,
       <<props.prob_meas1_prep0, OneMinus(props.prob_meas0_prep1)>> >>

\* for qubit in range(n_qubits): the matrices appended from qubit k on,
\* until a qubit without the properties breaks the loop
RECURSIVE MeasFrom(_, _)
MeasFrom(qubits, k) ==
    IF k > Len(qubits) \/ qubits[k].meas = None THEN <<>>
    ELSE <<ErrorMatrix(qubits[k].meas.val)>> \o MeasFrom(qubits, k + 1)

\* QuacNoiseModel.from_backend
FromBackend(bk, kw) ==
    LET n == Len(bk.qubits)
    IN QuacNoiseModel(
           IF Truthy(kw["t1"]) THEN [q \in 1..n |-> TimesE9(bk.qubits[q].t1)]
           ELSE [q \in 1..n |-> Inf],
           IF Truthy(kw["t2"]) THEN [q \in 1..n |-> TimesE9(bk.qubits[q].t2)]
           ELSE [q \in 1..n |-> Inf],
           IF Truthy(kw["meas"]) THEN Some(MeasFrom(bk.qubits, 1)) ELSE None,
           None)

\* QuacNoiseModel.flip_prob
FlipProb(self, qubit, prep, meas) == self.meas_matrices.val[qubit + 1][prep + 1][meas + 1]

\* A backend and the arguments of from_backend, or an array and the
\* n_qubits argument of from_array.
BackendInit ==
    /\ SchedIdle
    /\ JobIdle
    /\ ChooseIdle
    /\ TaskIdle
    /\ ProviderIdle
    /\ MeasIdle
    /\ model = None
    /\ returned = None
    /\ recovered = None
    /\ \/ /\ backend \in {Some(bk) : bk \in Backends}
          /\ kwargs \in KwargsChoices
          /\ array = None
          /\ n_arg = 0
       \/ /\ backend = None
          /\ kwargs = <<>>
          /\ n_arg \in 1..MaxBackendQubits
          /\ array \in {Ok(arr) : arr \in ArrayInputs(n_arg)}

\* model = QuacNoiseModel.from_backend(backend, **kwargs)
CallFromBackend ==
    /\ backend # None
    /\ model = None
    /\ model' = FromBackend(backend.val, kwargs)
    /\ returned' = Some([op |-> "from_backend"])
    /\ UNCHANGED <<sched_vars, job_vars, svc_vars, array_vars, meas_vars>>

\* model = QuacNoiseModel.from_array(array, n_arg), when it returns one
KeepRecovered ==
    /\ model = None
    /\ recovered # None
    /\ recovered.ok
    /\ model' = recovered.val
    /\ returned' = Some([op |-> "from_array"])
    /\ UNCHANGED <<sched_vars, job_vars, svc_vars, array_vars, meas_vars>>

\* model.flip_prob(qubit, prep, meas), for a qubit that has a matrix
CallFlipProb ==
    /\ model # None
    /\ HasMeas(model)
    /\ \E qubit \in 0..(Len(model.meas_matrices.val) - 1), prep \in {0, 1}, meas \in {0, 1} :
          returned' = Some([op |-> "flip_prob", qubit |-> qubit, prep |-> prep,
                            meas |-> meas, value |-> FlipProb(model, qubit, prep, meas)])
    /\ UNCHANGED <<sched_vars, job_vars, svc_vars, model, array_vars, meas_vars>>

BackendNext == CallFromBackend \/ CallFromArray \/ KeepRecovered \/ CallFlipProb

SpecBackend == BackendInit /\ [][BackendNext]_vars

(***************************************************************************)
(* QuacProvider: constructions, which initialize the engine behind the     *)
(* class attribute provider_instantiated, and get_backend.  A name is the  *)
(* sequence of its words between underscores: fake_vigo_density_simulator  *)
(* is <<"fake", "vigo", "density", "simulator">>.                          *)
(***************************************************************************)
\* constructions of a QuacProvider in one process: 1..MaxProviders
MaxProviders == 2
\* backends of the user_def_backends list: 0..MaxUserBackends
MaxUserBackends == 2

\* self._sim_types
SimTypes == <<"density", "counts">>

\* The names of self._ibmq_provider.backends(): two devices and a simulator.
IbmqBackends == << <<"fake", "vigo">>, <<"fake", "yorktown">>, <<"fake", "qasm", "simulator">> >>

\* The names of the backends a user defines; the last one is an IBMQ name.
UserNames == { <<"mine">>, <<"lab">>, <<"fake", "vigo">> }

\* f"{hardware_backend.name()}_{sim_type}_simulator"
OptionName(hardware_name, sim_type) == hardware_name \o <<sim_type, "simulator">>

\* "qasm" not in name and "pulse" not in name
IsDevice(hardware_name) == "qasm" \notin Range(hardware_name) /\ "pulse" \notin Range(hardware_name)

\* Lines 35-40: the options of one simulator type
BuiltinOptions(sim_type) ==
    LET devices == SelectSeq(IbmqBackends, IsDevice)
    IN <<OptionName(<<"generic">>, sim_type)>>
           \o [i \in 1..Len(devices) |-> OptionName(devices[i], sim_type)]

\* Lines 43-49: the options of the user's backends, for every simulator type
UserOptions(backends) ==
    [i \in 1..(Len(SimTypes) * Len(backends)) |->
        OptionName(backends[((i - 1) % Len(backends)) + 1],
                   SimTypes[((i - 1) \div Len(backends)) + 1])]

\* Lines 46-48: a user backend has the name of an IBMQ backend
Collides(backends) == \E i \in 1..Len(backends) : backends[i] \in Range(IbmqBackends)

\* Lines 30-51: the fields of the instance, or the error of a collision
ProviderFields(backends) ==
    IF Truthy(backends) /\ Len(backends.val) > 0 /\ Collides(backends.val)
    THEN Raise("QuacBackendError")
    ELSE Ok([backend_options |->
                 BuiltinOptions(SimTypes[1]) \o BuiltinOptions(SimTypes[2])
                     \o (IF Truthy(backends) THEN UserOptions(backends.val) ELSE <<>>),
             user_def_backends |-> backends])

\* A construction that has not started.
NotStarted == [pc |-> "check", self |-> None]

ProviderInit ==
    /\ SchedIdle
    /\ NoiseIdle
    /\ JobIdle
    /\ ChooseIdle
    /\ TaskIdle
    /\ BackendIdle
    /\ provider_instantiated = FALSE
    /\ initialize_calls = 0
    /\ user_def_backends \in {None} \cup {Some(backends) :
                                             backends \in SeqsUpTo(UserNames, MaxUserBackends)}
    /\ providers = [c \in 1..MaxProviders |-> NotStarted]
    /\ got = None

\* QuacProvider.__init__, line 25: if not QuacProvider.provider_instantiated
ProviderCheck(c) ==
    /\ providers[c].pc = "check"
    /\ providers' = [providers EXCEPT ![c].pc =
                        IF provider_instantiated THEN "flag" ELSE "initialize"]
    /\ UNCHANGED <<sched_vars, noise_vars, job_vars, choose_vars, task_vars, backend_vars,
                   provider_instantiated, initialize_calls, user_def_backends, got>>

\* QuacProvider.__init__, line 26: quac.initialize()
ProviderInitialize(c) ==
    /\ providers[c].pc = "initialize"
    /\ initialize_calls' = initialize_calls + 1
    /\ providers' = [providers EXCEPT ![c].pc = "flag"]
    /\ UNCHANGED <<sched_vars, noise_vars, job_vars, choose_vars, task_vars, backend_vars,
                   provider_instantiated, user_def_backends, got>>

\* QuacProvider.__init__, lines 28-51: the flag is set and the options of
\* the instance are built.
ProviderBuild(c) ==
    /\ providers[c].pc = "flag"
    /\ provider_instantiated' = TRUE
    /\ LET fields == ProviderFields(user_def_backends)
       IN providers' = [providers EXCEPT ![c] =
              IF fields.ok THEN [pc |-> "done", self |-> Some(fields.val)]
              ELSE [pc |-> "raised", self |-> None]]
    /\ UNCHANGED <<sched_vars, noise_vars, job_vars, choose_vars, task_vars, backend_vars,
                   initialize_calls, user_def_backends, got>>

\* filtered_name.replace(f'_{sim_type}_simulator', ''), from word k on
RECURSIVE ReplaceFrom(_, _, _)
ReplaceFrom(name, k, sim_type) ==
    IF k > Len(name) THEN <<>>
    ELSE IF k < Len(name) /\ name[k] = sim_type /\ name[k + 1] = "simulator"
    THEN ReplaceFrom(name, k + 2, sim_type)
    ELSE <<name[k]>> \o ReplaceFrom(name, k + 1, sim_type)

\* The first word has no underscore before it.
Replace(name, sim_type) ==
    IF name = <<>> THEN <<>> ELSE <<name[1]>> \o ReplaceFrom(name, 2, sim_type)

\* Lines 102-104: the name without the simulator types
FilteredName(chosen_name) == Replace(Replace(chosen_name, SimTypes[1]), SimTypes[2])

\* Lines 99-108: the last IBMQ backend of the filtered name, if any
IbmqChosen(chosen_name) ==
    LET hits == {i \in 1..Len(IbmqBackends) : IbmqBackends[i] = FilteredName(chosen_name)}
    IN IF hits = {} THEN None
       ELSE Some([name |-> IbmqBackends[Max(hits)], of |-> "ibmq"])

\* Lines 110-112: the last user backend whose name is the name asked for
UserChosen(self, chosen_name, before) ==
    LET backends == IF Truthy(self.user_def_backends) THEN self.user_def_backends.val
                    ELSE <<>>
        hits == {i \in 1..Len(backends) : backends[i] = chosen_name}
    IN IF hits = {} THEN before
       ELSE Some([name |-> backends[Max(hits)], of |-> "user"])

\* The generic simulator of a type.
Generic(sim_type) == Ok([simulator |-> sim_type, hardware |-> None])

\* Lines 93-123: the name is looked up in the options.
LookUp(self, name) ==
    IF name \notin Range(self.backend_options) THEN Raise("QuacBackendError")
    ELSE LET chosen_backend == UserChosen(self, name, IbmqChosen(name))
         IN IF chosen_backend = None THEN Raise("AttributeError")
            ELSE Ok([simulator |-> IF "density" \in Range(name) THEN "density" ELSE "counts",
                     hardware |-> chosen_backend])

\* QuacProvider.get_backend; same_object is what "name is <literal>" gives
\* for a name equal to the literal.
GetBackend(self, name, same_object) ==
    IF name = <<>> \/ (name = OptionName(<<"generic">>, "density") /\ same_object)
    THEN Generic("density")
    ELSE IF name = OptionName(<<"generic">>, "counts") /\ same_object
    THEN Generic("counts")
    ELSE LookUp(self, name)

\* The names asked for: none, every listed one, and some that are not.
NamesAsked(self) ==
    {<<>>} \cup Range(self.backend_options)
        \cup {<<"mine">>, <<"fake", "vigo">>, <<"nowhere", "density", "simulator">>,
                 <<"fake", "qasm", "simulator", "counts", "simulator">>}

\* provider.get_backend(name)
CallGetBackend(c) ==
    /\ providers[c].pc = "done"
    /\ \E name \in NamesAsked(providers[c].self.val), same_object \in BOOLEAN :
          got' = Some([provider |-> c, name |-> name,
                       result |-> GetBackend(providers[c].self.val, name, same_object)])
    /\ UNCHANGED <<sched_vars, noise_vars, job_vars, choose_vars, task_vars, backend_vars,
                   provider_instantiated, initialize_calls, user_def_backends, providers>>

ProviderNext ==
    \E c \in 1..MaxProviders :
        \/ ProviderCheck(c)
        \/ ProviderInitialize(c)
        \/ ProviderBuild(c)
        \/ CallGetBackend(c)

SpecProvider == ProviderInit /\ [][ProviderNext]_vars

(***************************************************************************)
(* Properties of the scheduler.                                            *)
(***************************************************************************)
Scheduled == 1..index

\* The pair appended for the instruction at position k of the program.
PairOf(k) == CHOOSE pair \in Range(instruction_time_order) : pair.obj = k

StartOf(k) == PairOf(k).time

\* The gate length the lookup gave for instruction k, 0 when it raised.
LookedUpLength(k) ==
    LET looked_up == hardware_props[PropKey(instructions[k])]
    IN IF looked_up = Missing THEN 0 ELSE looked_up

\* The same, but 10 for a u1 scheduled by package quac_qiskit.
LengthOrU1(k) ==
    IF package = "quac_qiskit" /\ instructions[k].name = "u1" THEN 10
    ELSE LookedUpLength(k)

SharesQubit(a, b) ==
    Range(instructions[a].qubits) \cap Range(instructions[b].qubits) # {}

\* C1 as stated: in the output, two instructions that share a qubit are apart
\* by at least the looked-up gate length of the earlier one.
C1_Original ==
    pc = "done" =>
        \A a, b \in Scheduled :
            a < b /\ SharesQubit(a, b) => StartOf(b) >= StartOf(a) + LookedUpLength(a)

\* C1, amended: in the output, two instructions that share a qubit are apart by
\* at least the gate length of the earlier one, which is the looked-up length
\* (0 when the lookup raised) except for a u1 scheduled by quac_qiskit, whose
\* length is the fixed 10.
C1_Occupancy ==
    pc = "done" =>
        \A a, b \in Scheduled :
            a < b /\ SharesQubit(a, b) => StartOf(b) >= StartOf(a) + LengthOrU1(a)

\* A quac_qiskit run in which a u1 with a looked-up length of 20 is followed,
\* 10 later, by an instruction on its qubit, and a cx waits for a gate on
\* its second qubit.
C1_Witness ==
    /\ pc = "done"
    /\ package = "quac_qiskit"
    /\ \E a, b \in Scheduled :
          /\ a < b /\ SharesQubit(a, b)
          /\ instructions[a].name = "u1" /\ LookedUpLength(a) = 20
          /\ StartOf(b) = StartOf(a) + 10
    /\ \E a, b \in Scheduled :
          /\ a < b /\ instructions[b].name = "cx"
          /\ instructions[b].qubits[2] \in Range(instructions[a].qubits)
          /\ instructions[b].qubits[1] \notin Range(instructions[a].qubits)
          /\ StartOf(b) = StartOf(a) + 20

\* C2: the returned list is sorted by start time ascending, and instructions
\* of equal start time are in program order.
C2_SortedStable ==
    pc = "done" =>
        \A i, j \in 1..Len(instruction_time_order) :
            i < j =>
                /\ instruction_time_order[i].time <= instruction_time_order[j].time
                /\ instruction_time_order[i].time = instruction_time_order[j].time
                       => instruction_time_order[i].obj < instruction_time_order[j].obj

\* A returned list whose order differs from the program's and that holds a tie.
C2_Witness ==
    /\ pc = "done"
    /\ \E i \in 1..Len(instruction_time_order) : instruction_time_order[i].obj # i
    /\ \E i, j \in 1..Len(instruction_time_order) :
          /\ i < j
          /\ instruction_time_order[i].time = instruction_time_order[j].time
          /\ instruction_time_order[j].obj # j

\* Instructions before position k that act on qubit q.
EarlierOn(k, q) == {j \in 1..(k - 1) : q \in Range(instructions[j].qubits)}

\* When qubit q is free for the instruction at position k, by C3's rule with
\* the gate length given by Length.
FreeBefore(k, q, Length(_)) ==
    IF EarlierOn(k, q) = {} THEN 1
    ELSE LET j == Max(EarlierOn(k, q)) IN StartOf(j) + Length(j)

CountersRule(Length(_)) ==
    /\ index = 0 => \A q \in DOMAIN scheduling_times : scheduling_times[q] = 1
    /\ \A k \in Scheduled :
          /\ StartOf(k) = Max({FreeBefore(k, q, Length) : q \in Range(instructions[k].qubits)})
          /\ StartOf(k) >= 1
    /\ \A q \in DOMAIN scheduling_times :
          scheduling_times[q] = FreeBefore(index + 1, q, Length)

IsExample ==
    /\ n_qubits = 2
    /\ Len(instructions) = 4
    /\ \A k \in 1..4 : /\ instructions[k].name = ExampleInstructions[k].name
                       /\ instructions[k].qubits = ExampleInstructions[k].qubits
    /\ hardware_props = ExampleProps

ExampleTimes ==
    IsExample /\ pc = "done" => [k \in 1..4 |-> StartOf(k)] = <<1, 51, 351, 351>>

\* C3 as stated: the counters start at 1, an instruction starts at the maximum
\* of its qubits' counters, and its qubits' counters become start + looked-up
\* gate length; the example's start times are 1, 51, 351, 351.
C3_Original == CountersRule(LookedUpLength) /\ ExampleTimes

\* C3, amended: the same with the gate length of a u1 scheduled by quac_qiskit
\* being the fixed 10 instead of the looked-up length.
C3_Counters == CountersRule(LengthOrU1) /\ ExampleTimes

\* The example has been scheduled, with start times 1, 51, 351, 351.
C3_Witness ==
    /\ IsExample
    /\ pc = "done"
    /\ [k \in 1..4 |-> StartOf(k)] = <<1, 51, 351, 351>>
    /\ scheduling_times = (0 :> 351) @@ (1 :> 351)

\* C4 as stated: once a measure or a barrier is scheduled, the counter of every
\* qubit it touches equals its own start time, whatever the lookup returned.
C4_ZeroDuration ==
    index > 0 /\ instructions[index].name \in {"measure", "barrier"} =>
        \A q \in Range(instructions[index].qubits) :
            scheduling_times[q] = gate_application_time

\* C5: the returned list holds every instruction of the program exactly once,
\* and each instruction carries its index in the program as its id.
C5_Permutation ==
    pc = "done" =>
        /\ Len(instruction_time_order) = Len(instructions)
        /\ {instruction_time_order[i].obj : i \in 1..Len(instruction_time_order)}
               = 1..Len(instructions)
        /\ \A k \in 1..Len(instructions) : instructions[k].id = k - 1

\* A returned list of three or more instructions, reordered by the sort, whose
\* measure can be traced back to its place in the program.
C5_Witness ==
    /\ pc = "done"
    /\ Len(instructions) >= 3
    /\ \E i \in 1..Len(instruction_time_order) :
          /\ instruction_time_order[i].obj # i
          /\ instructions[instruction_time_order[i].obj].name = "measure"
          /\ instructions[instruction_time_order[i].obj].id = instruction_time_order[i].obj - 1

(***************************************************************************)
(* Properties of has_t1 and has_t2.                                        *)
(***************************************************************************)
AllInfinite(times) == \A q \in 1..Len(times) : times[q] = Inf

Answered(op) == returned # None /\ returned.val.op = op

\* C8 as stated: has_t1() is false exactly when every entry of the T1 list is
\* +infinity, and has_t2() likewise for the T2 list.
C8_Original ==
    /\ Answered("has_t1") => (returned.val.value = ~AllInfinite(model.t1_times))
    /\ Answered("has_t2") => (returned.val.value = ~AllInfinite(model.t2_times))

\* C8, amended: has_t1() is false exactly when the T1 list is not empty and
\* every entry is +infinity, and has_t2() likewise; so both are false for
\* get_noiseless_model(n) with n >= 1, and a T1 list with a finite value makes
\* has_t1() true.
C8_Sentinel ==
    /\ Answered("has_t1") =>
          /\ returned.val.value = ~(Len(model.t1_times) > 0 /\ AllInfinite(model.t1_times))
          /\ (\E q \in 1..Len(model.t1_times) : model.t1_times[q] # Inf) => returned.val.value
          /\ (\E n \in 1..MaxHasQubits : model = GetNoiselessModel(n)) => ~returned.val.value
    /\ Answered("has_t2") =>
          /\ returned.val.value = ~(Len(model.t2_times) > 0 /\ AllInfinite(model.t2_times))
          /\ (\E n \in 1..MaxHasQubits : model = GetNoiselessModel(n)) => ~returned.val.value

\* has_t1() has answered true for a T1 list that mixes an infinite and a
\* finite time.
C8_Witness ==
    /\ Answered("has_t1")
    /\ returned.val.value
    /\ Inf \in Range(model.t1_times)
    /\ \E q \in 1..Len(model.t1_times) : model.t1_times[q] # Inf

(***************************************************************************)
(* Properties of the flat-array encoding.                                  *)
(***************************************************************************)
\* from_array has been called on what to_array returned for the model
RoundTripDone == model # None /\ array # None /\ recovered # None

\* C6 as stated: for a model with column-stochastic measurement matrices and
\* any combination of optional blocks, from_array(m.to_array(), n) has the
\* same T1 list, T2 list, measurement matrices and ZZ mapping as m, and the
\* same has_meas() and has_zz().
C6_RoundTrip ==
    RoundTripDone =>
        /\ recovered.ok
        /\ recovered.val.t1_times = model.t1_times
        /\ recovered.val.t2_times = model.t2_times
        /\ recovered.val.meas_matrices = model.meas_matrices
        /\ recovered.val.zz = model.zz
        /\ HasMeas(recovered.val) = HasMeas(model)
        /\ HasZz(recovered.val) = HasZz(model)

\* from_array has been called on an input array
Decoded == model = None /\ recovered # None

LexPairs(n) == {p \in (0..(n - 1)) \X (0..(n - 1)) : p[1] < p[2]}

\* The place of a pair among the pairs q1 < q2 in lexicographic order.
LexRank(pair, n) ==
    1 + Cardinality({p \in LexPairs(n) : p[1] < pair[1] \/ (p[1] = pair[1] /\ p[2] < pair[2])})

NoBlocks(m) == ~HasMeas(m) /\ ~HasZz(m)

MeasBlock(m, n) == HasMeas(m) /\ Len(m.meas_matrices.val) = n

ZzBlock(m, arr, n) ==
    /\ HasZz(m)
    /\ DOMAIN m.zz.val = LexPairs(n)
    /\ \A pair \in LexPairs(n) :
          m.zz.val[pair] = TimesScale(arr[4 * n + LexRank(pair, n)])

\* C7 as stated: from_array(v, n) returns a model for length 2n (no optional
\* block), 4n (measurement matrices only) and every length above 4n
\* (measurement matrices and a ZZ mapping over the pairs q1 < q2, filled from
\* the remaining entries in lexicographic order).
C7_Original ==
    Decoded =>
        LET len == Len(array.val)
        IN /\ len = 2 * n_arg => recovered.ok /\ NoBlocks(recovered.val)
           /\ len = 4 * n_arg =>
                  recovered.ok /\ MeasBlock(recovered.val, n_arg) /\ ~HasZz(recovered.val)
           /\ len > 4 * n_arg =>
                  /\ recovered.ok
                  /\ MeasBlock(recovered.val, n_arg)
                  /\ ZzBlock(recovered.val, array.val, n_arg)

\* C7, amended: the same, but above 4n only for the lengths that hold an entry
\* for every pair, that is from 4n + n(n-1)/2 on; entries beyond these are
\* ignored.
C7_Blocks ==
    Decoded =>
        LET len == Len(array.val)
        IN /\ len = 2 * n_arg => recovered.ok /\ NoBlocks(recovered.val)
           /\ len = 4 * n_arg =>
                  recovered.ok /\ MeasBlock(recovered.val, n_arg) /\ ~HasZz(recovered.val)
           /\ len > 4 * n_arg /\ len >= 4 * n_arg + (n_arg * (n_arg - 1)) \div 2 =>
                  /\ recovered.ok
                  /\ MeasBlock(recovered.val, n_arg)
                  /\ ZzBlock(recovered.val, array.val, n_arg)

\* An array of 15 entries has been decoded for 3 qubits: three matrices, and
\* the pair (1, 2) holds the last entry.
C7_Witness ==
    /\ Decoded
    /\ n_arg = 3
    /\ Len(array.val) = 15
    /\ recovered.ok
    /\ Len(recovered.val.meas_matrices.val) = 3
    /\ recovered.val.zz.val[<<1, 2>>] = TimesScale(array.val[15])
    /\ recovered.val.zz.val[<<0, 2>>] = TimesScale(array.val[14])

(***************************************************************************)
(* Properties of the measurement operators.                                *)
(***************************************************************************)
\* C9 as stated: over any sequence of meas() calls on one noise model,
\* build_full_measurement_matrices runs at most once, with or without
\* measurement matrices.
C9_ComposedOnce == build_calls <= 1

\* Bit t, counted from the most significant, of basis state i of n qubits.
Bit(i, t, n) == (i \div (2 ^ (n - 1 - t))) % 2

\* Entry (i, j) of the operator of qubit q: qubit q's own matrix between basis
\* states that differ at most in bit q, and nothing elsewhere.
OperatorEntry(mats, q, n, i, j) ==
    IF \A t \in (0..(n - 1)) \ {q} : Bit(i, t, n) = Bit(j, t, n)
    THEN mats[q + 1][Bit(i, q, n) + 1][Bit(j, q, n) + 1]
    ELSE Zero

\* The product over the first k qubits of their matrices' entries between
\* basis states i and j.
RECURSIVE TensorEntry(_, _, _, _, _)
TensorEntry(mats, n, i, j, k) ==
    IF k = 0 THEN One
    ELSE Mul(TensorEntry(mats, n, i, j, k - 1),
             mats[k][Bit(i, k - 1, n) + 1][Bit(j, k - 1, n) + 1])

Raised(exception) ==
    /\ run_result # None
    /\ ~run_result.ok
    /\ run_result.val = exception

\* quac_simulator.run has been called.
RunStarted == quac_simulator # None /\ quac_simulator.run # None

HasMeasure == \E k \in 1..Len(instructions) : instructions[k].name = "measure"

\* The instruction at position k of the program is forwarded as a gate.
IsGate(k) == instructions[k].name \notin {"measure", "barrier"}

\* The start time of the last instruction of the schedule.
LastStart == instruction_time_order[Len(instruction_time_order)].time

\* C11 as stated: when no instruction is a measure, the run fails with the
\* no-measurement error (the options being in order), and at that moment no
\* gate has been added to the circuit, no qubits have been created, no
\* Lindblad term has been added and no run has been started.
C11_FailFast ==
    /\ (~HasMeasure /\ pc \in {"done", "raised"} /\ ~Raised("QuacOptionsError"))
           => Raised("QuacBackendError")
    /\ Raised("QuacBackendError") =>
           /\ quac_circuit.gates = <<>>
           /\ ~quac_simulator.qubits_created
           /\ quac_simulator.lindblad = <<>>
           /\ quac_simulator.run = None

\* The caller gave gate_times, fewer than there are instructions.
ShortGateTimes ==
    /\ "gate_times" \in DOMAIN run_config
    /\ Truthy(run_config["gate_times"])
    /\ Len(run_config["gate_times"].val) < Len(instructions)

\* The caller gave a simulation_length below the last start time.
ShortSimulationLength ==
    /\ "simulation_length" \in DOMAIN run_config
    /\ Truthy(run_config["simulation_length"])
    /\ run_config["simulation_length"].val < LastStart

\* C12 as stated: with gate_times shorter than the instruction count, or a
\* simulation_length below the last start time, the run fails and the engine
\* run is not started.
C12_InsufficientTiming ==
    (ShortGateTimes \/ ShortSimulationLength) =>
        /\ ~RunStarted
        /\ pc # "done"

\* C13 as stated: the duration of every run that reaches the engine is at
\* least the start time of the last scheduled instruction.
C13_Duration ==
    RunStarted => quac_simulator.run.val.time >= LastStart

\* C14 as stated: the time step of every run is the caller's time_step when
\* given and 10 otherwise, and it does not exceed the duration of the run.
C14_TimeStep ==
    RunStarted =>
        /\ quac_simulator.run.val.dt =
               (IF Truthy(run_config["time_step"]) THEN run_config["time_step"].val ELSE 10)
        /\ quac_simulator.run.val.dt <= quac_simulator.run.val.time

\* The pairs of the schedule that are neither measures nor barriers.
ForwardedPairs ==
    SelectSeq(instruction_time_order, LAMBDA pair : IsGate(pair.obj))

\* The engine's name of a gate.
EngineName(name) ==
    IF name = "cx" THEN "cnot" ELSE IF name = "id" THEN "i" ELSE name

\* C15 as stated: once all instructions are added, the circuit holds one gate
\* for every scheduled instruction other than measure and barrier, in
\* schedule order, at its start time, on all of its qubits, with its
\* parameters, cx under the name cnot and id under the name i.
C15_Forwarded ==
    pc \in {"run", "done"} =>
        /\ Len(quac_circuit.gates) = Len(ForwardedPairs)
        /\ \A i \in 1..Len(ForwardedPairs) :
              LET instruction == instructions[ForwardedPairs[i].obj]
                  added == quac_circuit.gates[i]
              IN /\ added.gate = EngineName(instruction.name)
                 /\ added.qubits = instruction.qubits
                 /\ added.time = ForwardedPairs[i].time
                 /\ Cardinality(DOMAIN added.params) = Len(instruction.params)
                 /\ {added.params[k] : k \in DOMAIN added.params} = Range(instruction.params)

\* The adding loop has handled the first HandledCount pairs of the schedule.
AddStarted == pc \in {"add", "run", "done"} \/ Raised("QuacBackendError")

HandledCount == IF pc = "add" THEN index ELSE Len(instruction_time_order)

\* A measure of the qubit stands in the schedule before position i.
MeasuredBefore(i, qubit) ==
    \E j \in 1..(i - 1) :
        LET earlier == instructions[instruction_time_order[j].obj]
        IN earlier.name = "measure" /\ earlier.qubits[1] = qubit

\* In the program no gate acts on a qubit after a measure of that qubit.
MeasuresLast ==
    \A a, b \in 1..Len(instructions) :
        (a < b /\ instructions[a].name = "measure" /\ IsGate(b))
            => instructions[a].qubits[1] \notin Range(instructions[b].qubits)

\* C16: for every gate the adding loop has handled, a warning names the gate
\* and a qubit of it exactly when a measure of that qubit was recorded before
\* it; all handled gates are in the circuit, warned about or not; every
\* handled measure is and stays in the mapping of its qubit; a run that
\* warned raises no error; and a program whose gates all come before the
\* measures of their qubits draws no warning.
C16_Warned ==
    AddStarted =>
        /\ \A i \in 1..HandledCount :
              LET obj == instruction_time_order[i].obj
                  instruction == instructions[obj]
              IN /\ IsGate(obj) =>
                        \A qubit \in Range(instruction.qubits) :
                            MeasuredBefore(i, qubit)
                                <=> [obj |-> obj, qubit |-> qubit] \in Range(warned)
                 /\ instruction.name = "measure" =>
                        /\ instruction.qubits[1] \in DOMAIN qubit_measurements
                        /\ instruction.memory[1]
                               \in Range(qubit_measurements[instruction.qubits[1]])
        /\ \A w \in Range(warned) :
              /\ IsGate(w.obj)
              /\ \E i \in 1..HandledCount :
                    instruction_time_order[i].obj = w.obj /\ MeasuredBefore(i, w.qubit)
        /\ Len(quac_circuit.gates) =
               Cardinality({i \in 1..HandledCount : IsGate(instruction_time_order[i].obj)})
        /\ \A qubit \in DOMAIN qubit_measurements :
              Len(qubit_measurements[qubit]) =
                  Cardinality({i \in 1..HandledCount :
                      LET instruction == instructions[instruction_time_order[i].obj]
                      IN instruction.name = "measure" /\ instruction.qubits[1] = qubit})
        /\ warned # <<>> => (run_result = None \/ run_result.ok)
        /\ MeasuresLast => warned = <<>>

\* A run that returned after a warning about the second qubit of a two-qubit
\* gate, the measure of that qubit still in the mapping.
C16_Witness ==
    /\ pc = "done"
    /\ run_result.ok
    /\ \E w \in Range(warned) :
          /\ Len(instructions[w.obj].qubits) = 2
          /\ w.qubit = instructions[w.obj].qubits[2]
          /\ w.qubit \in DOMAIN qubit_measurements

\* C17: the run raises the options error exactly when the backend has no
\* hardware specification, no lindblad parameters are injected and no_noise
\* is not set.
C17_OptionsError ==
    pc # "options" =>
        (Raised("QuacOptionsError")
            <=> /\ ~hardware_specified
                /\ ~Truthy(run_config["lindblad"])
                /\ ~Truthy(run_config["no_noise"]))

\* A run that raised the options error.
C17_Witness ==
    /\ Raised("QuacOptionsError")
    /\ ~hardware_specified
    /\ quac_circuit = None

(***************************************************************************)
(* Properties of the result tables.                                        *)
(***************************************************************************)
\* Every qubit q is measured once, into classical bit q.
IdentityMeasurements ==
    /\ qobj_config.memory_slots = qobj_config.n_qubits
    /\ qubit_measurements = [q \in 0..(qobj_config.n_qubits - 1) |-> <<q>>]

\* C18 as stated: for a circuit that measures every qubit q into classical
\* bit q, the key under which the counts simulator counts a shot of index k
\* is the key under which the density simulator puts basis state k.
C18_SameKeys ==
    (/\ IdentityMeasurements
     /\ outcome # None
     /\ classical_register_hex # None
     /\ outcome.val = decimal_state - 1)
        => qiskit_outcome = classical_register_hex

\* The sum of a table's values over a set of its keys.
RECURSIVE SumOver(_, _)
SumOver(table, keys) ==
    IF keys = {} THEN Zero
    ELSE LET key == CHOOSE k \in keys : TRUE
         IN Add(table[key], SumOver(table, keys \ {key}))

\* C19: the values of the density table sum to the probabilities of the
\* basis states handled so far, and at the end to the sum of the whole
\* vector, for every vector and every mapping.
C19_MassConserved ==
    pc \in {"states", "done"} =>
        SumOver(frequencies, DOMAIN frequencies) = SumTo(bitstring_probs.val, decimal_state)

\* The table of a vector with several non-zero entries is complete, and two
\* of its basis states share a key.
C19_Witness ==
    /\ pc = "done"
    /\ decimal_state = 2 ^ qobj_config.n_qubits
    /\ Cardinality(Drawable(bitstring_probs.val)) > 1
    /\ Cardinality(DOMAIN frequencies) < decimal_state
    /\ Cardinality(DOMAIN frequencies) > 1

\* The qubits whose measures write classical bit c.
Writers(c) == {q \in DOMAIN qubit_measurements : c \in Range(qubit_measurements[q])}

\* Classical bit c of the register of basis state k: 0 when no measure
\* writes it, else the outcome bit of the qubit that writes it (of the
\* highest of them: the register is written qubit after qubit).
RegisterBit(k, c) ==
    IF Writers(c) = {} THEN 0 ELSE Bit(k, Max(Writers(c)), qobj_config.n_qubits)

\* The number whose binary digit c is classical bit c, for the bits below c.
RECURSIVE RegisterValue(_, _)
RegisterValue(k, c) ==
    IF c = 0 THEN 0 ELSE RegisterValue(k, c - 1) + RegisterBit(k, c - 1) * 2 ^ (c - 1)

\* C20: the key of a basis state is the register read from the last
\* classical bit down to classical bit 0, where a classical bit holds the
\* outcome bit of the qubit measured into it and 0 when no measure writes it.
C20_Register ==
    classical_register_hex # None =>
        classical_register_hex.val
            = Hex(RegisterValue(decimal_state - 1, qobj_config.memory_slots))

\* A basis state with a non-zero key was handled under a mapping in which a
\* qubit feeds two classical bits and another qubit feeds none.
C20_Witness ==
    /\ classical_register_hex # None
    /\ classical_register_hex.val # Hex(0)
    /\ \E q \in DOMAIN qubit_measurements : Cardinality(Range(qubit_measurements[q])) = 2
    /\ \E q \in 0..(qobj_config.n_qubits - 1) : q \notin DOMAIN qubit_measurements
    /\ decimal_state - 1 \notin {0, 2 ^ qobj_config.n_qubits - 1}

(***************************************************************************)
(* Properties of choose_index.                                             *)
(***************************************************************************)
\* The indices whose interval of the running sum holds the draw.
Matches ==
    {i \in 0..(Len(prob_dist) - 1) :
        /\ ~Less(chooser.val, SumTo(prob_dist, i))
        /\ Less(chooser.val, SumTo(prob_dist, i + 1))}

\* C21: choose_index returns the first index i with
\* sum(p[0..i-1]) <= u < sum(p[0..i]), and 0 when there is none; for a
\* non-empty p the result is an index of p.
C21_ChooseIndex ==
    chosen # None =>
        /\ Matches # {} =>
              /\ chosen.val \in Matches
              /\ \A j \in Matches : chosen.val <= j
        /\ Matches = {} => chosen.val = 0
        /\ Len(prob_dist) > 0 => chosen.val \in 0..(Len(prob_dist) - 1)

(***************************************************************************)
(* Properties of QuacJob.                                                  *)
(***************************************************************************)
\* The step is the start of a submit() call of thread t.
StartsSubmit(t) ==
    /\ threads[t].pc = "idle"
    /\ threads'[t].op = "submit"
    /\ threads'[t].calls = threads[t].calls + 1

\* C22: submit() on a job that is already submitted raises the job error,
\* hands nothing to the executor and leaves the job's future as it is; the
\* job that backend.run() returns is already submitted.
C22_Resubmit ==
    /\ [](run_pc = "returned" => future # None)
    /\ [][\A t \in Threads :
             (StartsSubmit(t) /\ future # None) =>
                 /\ threads'[t].ret = AlreadySubmittedError
                 /\ threads'[t].pc = "idle"
                 /\ executor' = executor
                 /\ future' = future]_vars

C22_Witness ==
    /\ run_pc = "returned"
    /\ future = Some(1)
    /\ Len(executor) = 1
    /\ \E t \in Threads :
          /\ threads[t].op = "submit"
          /\ threads[t].ret = AlreadySubmittedError

\* C23: whatever the interleaving of the submit() calls on one job, its
\* function is handed to the executor at most once.
C23_HandedOnce == Len(executor) <= 1

\* C24: a thread inside status() never waits for the worker: where it
\* stands, the call can go on although the body has not finished.
C24_StatusNoWait ==
    \A t \in DOMAIN threads :
        threads[t].pc = "exception" => executor[threads[t].fut].state = "finished"

\* The future of the job, once backend.run() has returned it.
RunFuture == executor[future.val]

\* C25: backend.run() never raises a failure of the job body: it returns a
\* submitted job, the failure is kept in the job's future, the job's status
\* is ERROR from then on, and result() raises the exception kept.
C25_Captured ==
    /\ [](/\ run_pc # "raised"
          /\ run_pc = "returned" =>
                /\ future # None
                /\ RunFuture.state = "finished" =>
                      (~RunFuture.outcome.val.ok <=> JobStatus(RunFuture) = "ERROR")
                /\ \A t \in Threads :
                      (threads[t].op = "result" /\ threads[t].pc = "idle") =>
                          /\ RunFuture.state = "finished"
                          /\ threads[t].ret = RunFuture.outcome.val)
    /\ [][(run_pc = "returned" /\ JobStatus(RunFuture) = "ERROR") =>
              /\ future' = future
              /\ executor'[future.val] = RunFuture
              /\ JobStatus(executor'[future.val]) = "ERROR"]_vars

C25_Witness ==
    /\ run_pc = "returned"
    /\ future # None
    /\ RunFuture.outcome = Some(Raise("QuacOptionsError"))
    /\ JobStatus(RunFuture) = "ERROR"
    /\ \E t \in Threads :
          /\ threads[t].op = "result"
          /\ threads[t].pc = "idle"
          /\ threads[t].ret = Raise("QuacOptionsError")

(***************************************************************************)
(* Properties of from_backend and flip_prob.                               *)
(***************************************************************************)
\* P(measured = meas | prepared = prep) of a qubit, by the layout the
\* constructor documents: row = measured state, column = prepared state.
Documented(qubit, prep, meas) == model.meas_matrices.val[qubit + 1][meas + 1][prep + 1]

\* The same probability, from the properties of the backend.
OfBackend(qubit, prep, meas) ==
    LET props == backend.val.qubits[qubit + 1].meas.val
    IN IF prep = 0
       THEN (IF meas = 1 THEN props.prob_meas1_prep0 ELSE OneMinus(props.prob_meas1_prep0))
       ELSE (IF meas = 0 THEN props.prob_meas0_prep1 ELSE OneMinus(props.prob_meas0_prep1))

\* C27: flip_prob(qubit, prep, meas) returns the probability that the qubit
\* is measured in meas given that it was prepared in prep, for the layout the
\* constructor documents and from_backend builds.
C27_FlipProb ==
    Answered("flip_prob") =>
        LET call == returned.val
        IN /\ call.value = Documented(call.qubit, call.prep, call.meas)
           /\ backend # None => call.value = OfBackend(call.qubit, call.prep, call.meas)

\* The noise models built so far.
Built ==
    (IF model # None THEN {model} ELSE {})
        \cup (IF recovered # None /\ recovered.ok THEN {recovered.val} ELSE {})

\* C29: a model for which has_meas() is true holds one 2x2 measurement
\* matrix per qubit, whether from_backend or from_array built it.
C29_OnePerQubit ==
    \A built \in Built :
        HasMeas(built) =>
            /\ Len(built.meas_matrices.val) = Len(built.t1_times)
            /\ \A q \in 1..Len(built.meas_matrices.val) :
                  /\ Len(built.meas_matrices.val[q]) = 2
                  /\ \A row \in 1..2 : Len(built.meas_matrices.val[q][row]) = 2

(***************************************************************************)
(* Properties of the T1 and T2 of a run.                                   *)
(***************************************************************************)
\* The source of the T1 and T2 of a run, by the options alone.
TimesSource ==
    IF Truthy(run_config["no_noise"]) THEN "no_noise"
    ELSE IF Truthy(run_config["lindblad"]) THEN "lindblad"
    ELSE "hardware"

\* The T1 and T2 a source gives to a qubit.
TimesOf(source, qubit) ==
    IF source = "no_noise" THEN [T1 |-> Inf, T2 |-> Inf]
    ELSE IF source = "lindblad" THEN run_config["lindblad"].val[qubit]
    ELSE [T1 |-> QubitProperty(qubit, "T1"), T2 |-> QubitProperty(qubit, "T2")]

\* The Lindblad terms of the engine have been added.
TermsAdded == quac_simulator # None /\ quac_simulator.qubits_created

\* C28: no_noise overrides the injected lindblad values, which override the
\* hardware properties; every qubit of a run gets its T1 and T2 from that
\* one source, and infinite ones under no_noise.
C28_Priority ==
    TermsAdded =>
        /\ Len(quac_simulator.lindblad) = 2 * n_qubits
        /\ TimesSource = "hardware" => hardware_specified
        /\ \A qubit \in 0..(n_qubits - 1) :
              LET times == TimesOf(TimesSource, qubit)
              IN /\ quac_simulator.lindblad[2 * qubit + 1] =
                        [term |-> "emission", qubit |-> qubit, rate |-> Rate(times.T1)]
                 /\ quac_simulator.lindblad[2 * qubit + 2] =
                        [term |-> "dephasing", qubit |-> qubit, rate |-> Rate(times.T2)]

\* A run of two qubits on a hardware backend with lindblad injected and
\* no_noise set: both qubits have no decay.
C28_Witness ==
    /\ TermsAdded
    /\ n_qubits = 2
    /\ hardware_specified
    /\ Truthy(run_config["lindblad"])
    /\ Truthy(run_config["no_noise"])
    /\ \A i \in 1..4 : quac_simulator.lindblad[i].rate = Dec(0, 0)

(***************************************************************************)
(* Properties of QuacProvider.                                             *)
(***************************************************************************)
\* The constructions that are past the initialization of the engine.
PastInitialize == {c \in DOMAIN providers : providers[c].pc \in {"flag", "done", "raised"}}

\* C26: however many providers are constructed in the process, one after
\* the other or at the same time, quac.initialize() is called exactly once.
C26_InitializedOnce ==
    /\ initialize_calls <= 1
    /\ PastInitialize # {} => initialize_calls = 1

\* The provider get_backend was called on.
Asked == providers[got.val.provider].self.val

\* The user's backends of that provider.
UserBackendsAsked ==
    IF Truthy(Asked.user_def_backends) THEN Range(Asked.user_def_backends.val) ELSE {}

\* C30: a name listed for a user-defined backend gives the simulator of its
\* type built from that backend; a name that is not listed gives a backend
\* error.
C30_UserBackends ==
    got # None =>
        /\ \A hardware_name \in UserBackendsAsked, sim_type \in Range(SimTypes) :
              got.val.name = OptionName(hardware_name, sim_type) =>
                  /\ got.val.result.ok
                  /\ got.val.result.val = [simulator |-> sim_type,
                                           hardware |-> Some([name |-> hardware_name,
                                                              of |-> "user"])]
        /\ (got.val.name # <<>> /\ got.val.name \notin Range(Asked.backend_options)) =>
              /\ ~got.val.result.ok
              /\ got.val.result.val = "QuacBackendError"

====
